---- MODULE Spec2Model ----
(***************************************************************************)
(* The statement parser of cx (src/src/parse_statement.cpp) as a state     *)
(* machine.  The recursive descent is an explicit stack of activations;    *)
(* every activation is at a label named after the source line it is about  *)
(* to execute.  The token cursor, the intermediate code stream, the        *)
(* location markers and the error sink are the shared parser state.        *)
(***************************************************************************)
EXTENDS Integers, Sequences, FiniteSets, TLC

(* ------------------------------------------------------------------ *)
(* Bounds of the model                                                  *)
(* ------------------------------------------------------------------ *)

\* longest input drawn freely from the whole token alphabet
MaxLenAll == 2
\* longest input drawn freely from the control-flow alphabet
MaxLenCtl == 3
\* number of tokens that may follow one of the sample programs
MaxTail == 1
\* how often a statement list is followed through an iteration that consumed
\* no token (such an iteration repeats itself for ever)
MaxStall == 1

(* ------------------------------------------------------------------ *)
(* Tokens, error codes, types                                           *)
(* ------------------------------------------------------------------ *)

tc_end_of_file == "tc_end_of_file"

ExprTokens == {"tc_identifier", "tc_number", "tc_plus"}

Keywords ==
  {"tc_CONST", "tc_DO", "tc_WHILE", "tc_IF", "tc_ELSE", "tc_FOR", "tc_SWITCH",
   "tc_BREAK", "tc_RETURN", "tc_CASE", "tc_DEFAULT"}

Punctuation ==
  {"tc_left_bracket", "tc_right_bracket", "tc_left_paren", "tc_right_paren",
   "tc_semicolon", "tc_pound", "tc_colon"}

Tokens == ExprTokens \cup Keywords \cup Punctuation

\* units of the intermediate code stream that are not tokens
mc_location_marker == "mc_location_marker"
mc_line_marker == "mc_line_marker"

err_incompatible_types == "err_incompatible_types"

Types == {"boolean", "integer", "char", "enum", "real"}

\* the tokens a statement can start with, and the tokens that can follow one
tokenlist_statement_start ==
  {"tc_identifier", "tc_CONST", "tc_DO", "tc_WHILE", "tc_IF", "tc_FOR",
   "tc_SWITCH", "tc_BREAK", "tc_left_bracket", "tc_RETURN", "tc_pound"}

tokenlist_statement_follow ==
  {"tc_semicolon", "tc_right_bracket", "tc_ELSE", "tc_WHILE"}

(* ------------------------------------------------------------------ *)
(* Inputs                                                               *)
(* ------------------------------------------------------------------ *)

CtlTokens ==
  {"tc_identifier", "tc_DO", "tc_WHILE", "tc_IF", "tc_ELSE",
   "tc_left_bracket", "tc_right_bracket", "tc_semicolon"}

\* for (a; a; a) a
ProgFor ==
  <<"tc_FOR", "tc_left_paren", "tc_identifier", "tc_semicolon", "tc_identifier",
    "tc_semicolon", "tc_identifier", "tc_right_paren", "tc_identifier">>

\* for (;;) { a }
ProgForEmpty ==
  <<"tc_FOR", "tc_left_paren", "tc_semicolon", "tc_semicolon", "tc_right_paren",
    "tc_left_bracket", "tc_identifier", "tc_right_bracket">>

\* if (a) a; else a
ProgIfElse ==
  <<"tc_IF", "tc_left_paren", "tc_identifier", "tc_right_paren", "tc_identifier",
    "tc_semicolon", "tc_ELSE", "tc_identifier">>

\* if (a) if (a) a else a
ProgDangling ==
  <<"tc_IF", "tc_left_paren", "tc_identifier", "tc_right_paren", "tc_IF",
    "tc_left_paren", "tc_identifier", "tc_right_paren", "tc_identifier",
    "tc_ELSE", "tc_identifier">>

\* do a; while (a)
ProgDo ==
  <<"tc_DO", "tc_identifier", "tc_semicolon", "tc_WHILE", "tc_left_paren",
    "tc_identifier", "tc_right_paren">>

\* while (1 + 1) { }
ProgWhile ==
  <<"tc_WHILE", "tc_left_paren", "tc_number", "tc_plus", "tc_number",
    "tc_right_paren", "tc_left_bracket", "tc_right_bracket">>

\* { a; ; ; a }
ProgList ==
  <<"tc_left_bracket", "tc_identifier", "tc_semicolon", "tc_semicolon",
    "tc_semicolon", "tc_identifier", "tc_right_bracket">>

\* { { a } a }
ProgNested ==
  <<"tc_left_bracket", "tc_left_bracket", "tc_identifier", "tc_right_bracket",
    "tc_identifier", "tc_right_bracket">>

\* { return a; }
ProgReturn ==
  <<"tc_left_bracket", "tc_RETURN", "tc_identifier", "tc_semicolon",
    "tc_right_bracket">>

\* switch (a) { break; }
ProgSwitch ==
  <<"tc_SWITCH", "tc_left_paren", "tc_identifier", "tc_right_paren",
    "tc_left_bracket", "tc_BREAK", "tc_semicolon", "tc_right_bracket">>

\* { const a ; ) }
ProgConst ==
  <<"tc_left_bracket", "tc_CONST", "tc_identifier", "tc_semicolon",
    "tc_right_paren", "tc_right_bracket">>

\* { while (a) a ; a }
ProgWhileList ==
  <<"tc_left_bracket", "tc_WHILE", "tc_left_paren", "tc_identifier",
    "tc_right_paren", "tc_identifier", "tc_semicolon", "tc_identifier",
    "tc_right_bracket">>

\* { while (a) break ; switch (a) break ; break }
ProgBreak ==
  <<"tc_left_bracket", "tc_WHILE", "tc_left_paren", "tc_identifier",
    "tc_right_paren", "tc_BREAK", "tc_semicolon", "tc_SWITCH", "tc_left_paren",
    "tc_identifier", "tc_right_paren", "tc_BREAK", "tc_semicolon", "tc_BREAK",
    "tc_right_bracket">>

\* { # a ; const a ; break }
ProgPound ==
  <<"tc_left_bracket", "tc_pound", "tc_identifier", "tc_semicolon", "tc_CONST",
    "tc_identifier", "tc_semicolon", "tc_BREAK", "tc_right_bracket">>

\* if (a) if (a) a ; ) else a
ProgStrayElse ==
  <<"tc_IF", "tc_left_paren", "tc_identifier", "tc_right_paren", "tc_IF",
    "tc_left_paren", "tc_identifier", "tc_right_paren", "tc_identifier",
    "tc_semicolon", "tc_right_paren", "tc_ELSE", "tc_identifier">>

Programs ==
  {ProgFor, ProgForEmpty, ProgIfElse, ProgDangling, ProgDo, ProgWhile,
   ProgList, ProgNested, ProgReturn, ProgSwitch, ProgConst, ProgWhileList,
   ProgBreak, ProgPound, ProgStrayElse}

\* An input profile: a fixed text, then up to len tokens of alpha in all,
\* then end of input.  End of input may also come at any earlier point.
Profiles ==
  {[text |-> <<>>, alpha |-> Tokens, len |-> MaxLenAll],
   [text |-> <<>>, alpha |-> CtlTokens, len |-> MaxLenCtl]}
  \cup {[text |-> p, alpha |-> CtlTokens, len |-> Len(p) + MaxTail] : p \in Programs}

\* the routine whose body is parsed: its kind and its declared return type
Routines ==
  {[which |-> "func_declared", p_type |-> "integer"],
   [which |-> "func_std_iterator", p_type |-> "real"]}

(* ------------------------------------------------------------------ *)
(* State                                                                *)
(* ------------------------------------------------------------------ *)

VARIABLES
  profile,   \* the input profile the scanner draws from
  routine,   \* p_function_id: the enclosing routine's descriptor
  input,     \* the tokens scanned so far; the last one is the current token
  icode,     \* the intermediate code stream
  markers,   \* slot of a location marker |-> who reserved it, who fixed it, the values written
  errors,    \* the error sink: <<error code, reporting activation>>
  stack,     \* the activations of the recursive descent, innermost last
  acts       \* history: one record per activation ever started

\* the state of the statement parser
parser == <<profile, routine, input, icode, markers, errors, stack, acts>>

\* AConsciousnessNetworkVisualizer
VARIABLES
  bIsConnectedToNetwork,   \* the connected flag
  ActivePathways,          \* TArray<FNeuralPathwayData>
  ActiveStreams,           \* TArray<FConsciousnessStreamData>
  CurrentMetrics,          \* FConsciousnessMetrics
  NeuralPathwaySplines,    \* the number of spline components created
  request                  \* history: the operation called last, and the index
                           \* at which it found the identifier it was given

visualizer ==
  <<bIsConnectedToNetwork, ActivePathways, ActiveStreams, CurrentMetrics,
    NeuralPathwaySplines, request>>

\* AConsciousnessEntity
VARIABLES
  ConsciousnessData,   \* Awareness, Emotion, Energy, ConsciousnessLevel
  Previous,            \* PreviousAwareness .. PreviousConsciousnessLevel
  VisualizationData,   \* FConsciousnessVisualization
  fired,               \* history: the events the last Tick fired, in order
  called               \* history: the operation called last

entity == <<ConsciousnessData, Previous, VisualizationData, fired, called>>

vars == <<parser, visualizer, entity>>

\* FConsciousnessMetrics(): the default metrics
FConsciousnessMetrics ==
  [ActiveStreams |-> 0, GlobalCoherence |-> "1.0",
   EmergentIntelligenceLevel |-> "0.0", AverageNetworkLatency |-> 0,
   TotalProcessedEvents |-> 0, IntelligenceNodes |-> 0]

\* the visualizer as its constructor leaves it
AConsciousnessNetworkVisualizer ==
  /\ bIsConnectedToNetwork = FALSE
  /\ ActivePathways = <<>>
  /\ ActiveStreams = <<>>
  /\ CurrentMetrics = FConsciousnessMetrics
  /\ NeuralPathwaySplines = 0
  /\ request = [op |-> "AConsciousnessNetworkVisualizer", found |-> 0]

\* FConsciousnessData(): the default consciousness data
FConsciousnessData ==
  [Awareness |-> "0.5", Emotion |-> "0.5", Energy |-> "0.5",
   ConsciousnessLevel |-> "0.5"]

\* FConsciousnessVisualization(): the default visualization parameters
FConsciousnessVisualization ==
  [AuraRadius |-> "5.0", AuraIntensity |-> "1.0", ParticleCount |-> 50,
   AnimationSpeed |-> "1.0", AuraColor |-> "Blue"]

\* the entity as its constructor leaves it
AConsciousnessEntity ==
  /\ ConsciousnessData = FConsciousnessData
  /\ Previous = FConsciousnessData
  /\ VisualizationData = FConsciousnessVisualization
  /\ fired = <<>>
  /\ called = "AConsciousnessEntity"

token == input[Len(input)]

Top == stack[Len(stack)]

Running == stack # <<>>

\* what the scanner may deliver next
NextTokens ==
  IF Len(input) < Len(profile.text)
    THEN {profile.text[Len(input) + 1], tc_end_of_file}
    ELSE IF Len(input) < profile.len
      THEN profile.alpha \cup {tc_end_of_file}
      ELSE {tc_end_of_file}

FirstTokens(p) ==
  IF Len(p.text) > 0 THEN {p.text[1]}
  ELSE IF p.len > 0 THEN p.alpha \cup {tc_end_of_file}
  ELSE {tc_end_of_file}

Entry(fn) ==
  CASE fn = "parse_statement" -> "L10"
    [] fn = "parse_statement_list" -> "L66"
    [] fn = "parse_DO" -> "L99"
    [] fn = "parse_WHILE" -> "L123"
    [] fn = "parse_IF" -> "L153"
    [] fn = "parse_FOR" -> "L189"
    [] fn = "parse_SWITCH" -> "L239"
    [] fn = "parse_compound" -> "L309"
    [] fn = "parse_RETURN" -> "L328"
    [] fn = "parse_case_label" -> "L265"
    [] OTHER -> "scan"

Frame(fn, term, id) ==
  [fn |-> fn, pc |-> Entry(fn), id |-> id, term |-> term,
   loc |-> <<0, 0, 0, 0>>, val |-> "none", iter |-> 0, stall |-> 0,
   sign_flag |-> FALSE]

Act(fn, term, parent, site) ==
  [fn |-> fn, term |-> term, parent |-> parent, site |-> site, done |-> FALSE,
   lo |-> Len(icode), hi |-> 0, ilo |-> Len(input), ihi |-> 0,
   elo |-> Len(errors), ehi |-> 0]

Init ==
  /\ AConsciousnessNetworkVisualizer
  /\ AConsciousnessEntity
  /\ profile \in Profiles
  /\ routine \in Routines
  /\ \E t \in FirstTokens(profile) : input = <<t>>
  /\ icode = <<>>
  /\ markers = <<>>
  /\ errors = <<>>
  /\ stack = <<Frame("parse_statement", "none", 1)>>
  /\ acts = <<[fn |-> "parse_statement", term |-> "none", parent |-> 0,
               site |-> "root", done |-> FALSE, lo |-> 0, hi |-> 0,
               ilo |-> 1, ihi |-> 0, elo |-> 0, ehi |-> 0]>>

(* ------------------------------------------------------------------ *)
(* Steps of an activation                                               *)
(* ------------------------------------------------------------------ *)

SetTop(f) == [stack EXCEPT ![Len(stack)] = f]

Goto(next) == stack' = SetTop([Top EXCEPT !.pc = next])

\* the cursor moves to the next token
Advance == \E t \in NextTokens : input' = Append(input, t)

\* get_token(): advance without recording the consumed token
get_token(next) ==
  /\ Advance
  /\ Goto(next)
  /\ UNCHANGED <<visualizer, entity, profile, routine, icode, markers, errors, acts>>

\* get_token_append recording the token it moved to
get_token_append_next(next) ==
  /\ Advance
  /\ icode' = Append(icode, input'[Len(input')])
  /\ Goto(next)
  /\ UNCHANGED <<visualizer, entity, profile, routine, markers, errors, acts>>

\* get_token_append(): advance and record the consumed token in the stream
get_token_append(next) ==
  /\ Advance
  /\ icode' = Append(icode, token)
  /\ Goto(next)
  /\ UNCHANGED <<visualizer, entity, profile, routine, markers, errors, acts>>

\* cx_error(code): record the error; the pass goes on
cx_error(code) == errors' = Append(errors, <<code, Top.id>>)

\* conditional_get_token_append(tc, ec): consume tc if it is the current
\* token, report ec and leave the cursor where it is otherwise
conditional_get_token_append(tc, ec, next) ==
  /\ IF token = tc
       THEN /\ Advance
            /\ icode' = Append(icode, token)
            /\ UNCHANGED errors
       ELSE /\ cx_error(ec)
            /\ UNCHANGED <<input, icode>>
  /\ Goto(next)
  /\ UNCHANGED <<visualizer, entity, profile, routine, markers, acts>>

\* put_location_marker(): append a placeholder, local k holds its slot
put_location_marker(k, next) ==
  /\ icode' = Append(icode, mc_location_marker)
  /\ markers' = markers @@ ((Len(icode) + 1) :>
                   [owner |-> Top.id, fixedBy |-> <<>>, val |-> <<>>])
  /\ stack' = SetTop([Top EXCEPT !.loc[k] = Len(icode) + 1, !.pc = next])
  /\ UNCHANGED <<visualizer, entity, profile, routine, input, errors, acts>>

\* fixup_location_marker writing the index of the slot itself
fixup_location_marker_self(k, next) ==
  /\ markers' = [markers EXCEPT
                   ![Top.loc[k]].fixedBy = Append(@, Top.id),
                   ![Top.loc[k]].val = Append(@, Top.loc[k])]
  /\ Goto(next)
  /\ UNCHANGED <<visualizer, entity, profile, routine, input, icode, errors, acts>>

\* fixup_location_marker adding the position to the stream as well
fixup_location_marker_emit(k, next) ==
  /\ markers' = [markers EXCEPT
                   ![Top.loc[k]].fixedBy = Append(@, Top.id),
                   ![Top.loc[k]].val = Append(@, Len(icode) + 1)]
  /\ icode' = Append(icode, "tc_number")
  /\ Goto(next)
  /\ UNCHANGED <<visualizer, entity, profile, routine, input, errors, acts>>

\* fixup_location_marker(m): write the current stream position into slot m
fixup_location_marker(k, next) ==
  /\ markers' = [markers EXCEPT
                   ![Top.loc[k]].fixedBy = Append(@, Top.id),
                   ![Top.loc[k]].val = Append(@, Len(icode) + 1)]
  /\ Goto(next)
  /\ UNCHANGED <<visualizer, entity, profile, routine, input, icode, errors, acts>>

\* insert_line_marker(): a line marker goes into the stream
insert_line_marker == icode' = Append(icode, mc_line_marker)

\* a call: the caller will resume at next, the callee starts at its entry
Call(fn, term, next) ==
  /\ stack' = Append(SetTop([Top EXCEPT !.pc = next]),
                     Frame(fn, term, Len(acts) + 1))
  /\ acts' = Append(acts, Act(fn, term, Top.id, Top.pc))
  /\ UNCHANGED <<visualizer, entity, profile, routine, input, icode, markers, errors>>

\* a return: the activation ends and hands v to its caller
Return(v) ==
  /\ stack' = IF Len(stack) = 1 THEN <<>>
              ELSE [SubSeq(stack, 1, Len(stack) - 1) EXCEPT
                      ![Len(stack) - 1].val = v]
  /\ acts' = [acts EXCEPT ![Top.id] =
                [@ EXCEPT !.done = TRUE, !.hi = Len(icode),
                          !.ihi = Len(input), !.ehi = Len(errors)]]
  /\ UNCHANGED <<visualizer, entity, profile, routine, input, icode, markers, errors>>

\* a branch that changes nothing but the position in the code
Branch(next) ==
  /\ Goto(next)
  /\ UNCHANGED <<visualizer, entity, profile, routine, input, icode, markers, errors, acts>>

\* an expression statement: the value handed back by the callee is dropped
Discard(next) ==
  /\ stack' = SetTop([Top EXCEPT !.pc = next, !.val = "none"])
  /\ UNCHANGED <<visualizer, entity, profile, routine, input, icode, markers, errors, acts>>

At(fn, pc) == Running /\ Top.fn = fn /\ Top.pc = pc

(* ------------------------------------------------------------------ *)
(* The collaborators of the statement parser                            *)
(* ------------------------------------------------------------------ *)

\* parse_expression(): records the tokens of the expression, returns its type
parse_expression ==
  /\ At("parse_expression", "scan")
  /\ \/ token \in ExprTokens /\ get_token_append("scan")
     \/ token \notin ExprTokens /\ \E ty \in Types : Return(ty)

\* parse_declarations_or_assignment(): records the tokens of the declaration
\* or assignment
parse_declarations_or_assignment ==
  /\ At("parse_declarations_or_assignment", "scan")
  /\ \/ token \in ExprTokens /\ get_token_append("scan")
     \/ token \notin ExprTokens /\ Return("none")

\* parse_constant_declaration(): records the tokens of the declaration
parse_constant_declaration ==
  /\ At("parse_constant_declaration", "scan")
  /\ \/ token \in ExprTokens /\ get_token_append("scan")
     \/ token \notin ExprTokens /\ Return("none")

\* parse_execute_directive(): consumes the directive's name
parse_execute_directive ==
  /\ At("parse_execute_directive", "scan")
  /\ \/ token = "tc_identifier" /\ get_token("done")
     \/ token # "tc_identifier" /\ Return("none")

parse_execute_directive_end ==
  /\ At("parse_execute_directive", "done")
  /\ Return("none")

\* resync stopping on statement-follow tokens only
resync_follow ==
  \/ /\ At("resync", "scan")
     /\ IF token \in tokenlist_statement_follow
          THEN Return("none")
          ELSE Branch("skip")
  \/ /\ At("resync", "skip")
     /\ IF /\ token \notin tokenlist_statement_follow
           /\ token # tc_end_of_file
          THEN get_token("skip")
          ELSE Return("none")

\* resync(follow, start): nothing to do on a token of the follow set;
\* otherwise discard tokens up to one of follow or start, or end of input
resync ==
  \/ /\ At("resync", "scan")
     /\ IF token \in tokenlist_statement_follow
          THEN Return("none")
          ELSE Branch("skip")
  \/ /\ At("resync", "skip")
     /\ IF /\ token \notin tokenlist_statement_follow \cup tokenlist_statement_start
           /\ token # tc_end_of_file
          THEN get_token("skip")
          ELSE Return("none")

\* check_boolean(type): incompatible types unless the type is boolean
check_boolean(next) ==
  /\ IF Top.val # "boolean" THEN cx_error(err_incompatible_types)
                            ELSE UNCHANGED errors
  /\ stack' = SetTop([Top EXCEPT !.pc = next, !.val = "none"])
  /\ UNCHANGED <<visualizer, entity, profile, routine, input, icode, markers, acts>>

\* is_assignment_compatible(target, value)
AssignmentCompatible(target, value) ==
  \/ target = value
  \/ target = "real" /\ value = "integer"

\* check_assignment_type_compatible(target, value, ec)
check_assignment_type_compatible(target, ec, next) ==
  /\ IF ~AssignmentCompatible(target, Top.val) THEN cx_error(ec)
                                               ELSE UNCHANGED errors
  /\ stack' = SetTop([Top EXCEPT !.pc = next, !.val = "none"])
  /\ UNCHANGED <<visualizer, entity, profile, routine, input, icode, markers, acts>>

(* ------------------------------------------------------------------ *)
(* The statement parser                                                 *)
(* ------------------------------------------------------------------ *)

\* the dispatch with the cases of lines 37-39 in force
Handler_case(t) ==
  CASE t = "tc_identifier" -> "parse_declarations_or_assignment"
    [] t = "tc_DO" -> "parse_DO"
    [] t = "tc_WHILE" -> "parse_WHILE"
    [] t = "tc_IF" -> "parse_IF"
    [] t = "tc_FOR" -> "parse_FOR"
    [] t = "tc_SWITCH" -> "parse_SWITCH"
    [] t = "tc_CASE" -> "parse_case_label"
    [] t = "tc_DEFAULT" -> "parse_case_label"
    [] t = "tc_left_bracket" -> "parse_compound"
    [] t = "tc_RETURN" -> "parse_RETURN"
    [] OTHER -> "none"

\* the dispatch without the case of line 42
Handler_noreturn(t) ==
  CASE t = "tc_identifier" -> "parse_declarations_or_assignment"
    [] t = "tc_DO" -> "parse_DO"
    [] t = "tc_WHILE" -> "parse_WHILE"
    [] t = "tc_IF" -> "parse_IF"
    [] t = "tc_FOR" -> "parse_FOR"
    [] t = "tc_SWITCH" -> "parse_SWITCH"
    [] t = "tc_left_bracket" -> "parse_compound"
    [] OTHER -> "none"

\* the handler a leading token selects, "none" for the default case
Handler(t) ==
  CASE t = "tc_identifier" -> "parse_declarations_or_assignment"
    [] t = "tc_DO" -> "parse_DO"
    [] t = "tc_WHILE" -> "parse_WHILE"
    [] t = "tc_IF" -> "parse_IF"
    [] t = "tc_FOR" -> "parse_FOR"
    [] t = "tc_SWITCH" -> "parse_SWITCH"
    [] t = "tc_left_bracket" -> "parse_compound"
    [] t = "tc_RETURN" -> "parse_RETURN"
    [] OTHER -> "none"

\* parse_statement returning without the recovery of lines 52-54
parse_statement_norecovery ==
  \/ /\ At("parse_statement", "L10")
     /\ insert_line_marker
     /\ Goto("L12")
     /\ UNCHANGED <<visualizer, entity, profile, routine, input, markers, errors, acts>>
  \/ /\ At("parse_statement", "L12")
     /\ Handler(token) # "none"
     /\ Call(Handler(token), "none", "L52")
  \/ /\ At("parse_statement", "L12")
     /\ token = "tc_CONST"
     /\ get_token_append("L19")
  \/ /\ At("parse_statement", "L19")
     /\ Call("parse_constant_declaration", "none", "L52")
  \/ /\ At("parse_statement", "L12")
     /\ token = "tc_BREAK"
     /\ get_token_append("L52")
  \/ /\ At("parse_statement", "L12")
     /\ token = "tc_pound"
     /\ get_token("L46")
  \/ /\ At("parse_statement", "L46")
     /\ Call("parse_execute_directive", "none", "L52")
  \/ /\ At("parse_statement", "L12")
     /\ Handler(token) = "none"
     /\ token \notin {"tc_CONST", "tc_BREAK", "tc_pound"}
     /\ Branch("L52")
  \/ /\ At("parse_statement", "L52")
     /\ Return("none")
  \/ /\ At("parse_statement", "L55")
     /\ Return("none")

\* parse_statement reserving a jump for break, to be fixed up by the loop
parse_statement_breakjump ==
  \/ /\ At("parse_statement", "L10")
     /\ insert_line_marker
     /\ Goto("L12")
     /\ UNCHANGED <<visualizer, entity, profile, routine, input, markers, errors, acts>>
  \/ /\ At("parse_statement", "L12")
     /\ Handler(token) # "none"
     /\ Call(Handler(token), "none", "L52")
  \/ /\ At("parse_statement", "L12")
     /\ token = "tc_CONST"
     /\ get_token_append("L19")
  \/ /\ At("parse_statement", "L19")
     /\ Call("parse_constant_declaration", "none", "L52")
  \/ /\ At("parse_statement", "L12")
     /\ token = "tc_BREAK"
     /\ get_token_append("L41")
  \/ /\ At("parse_statement", "L41")
     /\ put_location_marker(1, "L52")
  \/ /\ At("parse_statement", "L12")
     /\ token = "tc_pound"
     /\ get_token("L46")
  \/ /\ At("parse_statement", "L46")
     /\ Call("parse_execute_directive", "none", "L52")
  \/ /\ At("parse_statement", "L12")
     /\ Handler(token) = "none"
     /\ token \notin {"tc_CONST", "tc_BREAK", "tc_pound"}
     /\ Branch("L52")
  \/ /\ At("parse_statement", "L52")
     /\ IF token # tc_end_of_file
          THEN Call("resync", "none", "L55")
          ELSE Return("none")
  \/ /\ At("parse_statement", "L55")
     /\ Return("none")

\* parse_statement recording the directive marker as it records const and break
parse_statement_pound ==
  \/ /\ At("parse_statement", "L10")
     /\ insert_line_marker
     /\ Goto("L12")
     /\ UNCHANGED <<visualizer, entity, profile, routine, input, markers, errors, acts>>
  \/ /\ At("parse_statement", "L12")
     /\ Handler(token) # "none"
     /\ Call(Handler(token), "none", "L52")
  \/ /\ At("parse_statement", "L12")
     /\ token = "tc_CONST"
     /\ get_token_append("L19")
  \/ /\ At("parse_statement", "L19")
     /\ Call("parse_constant_declaration", "none", "L52")
  \/ /\ At("parse_statement", "L12")
     /\ token = "tc_BREAK"
     /\ get_token_append("L52")
  \/ /\ At("parse_statement", "L12")
     /\ token = "tc_pound"
     /\ get_token_append("L46")
  \/ /\ At("parse_statement", "L46")
     /\ Call("parse_execute_directive", "none", "L52")
  \/ /\ At("parse_statement", "L12")
     /\ Handler(token) = "none"
     /\ token \notin {"tc_CONST", "tc_BREAK", "tc_pound"}
     /\ Branch("L52")
  \/ /\ At("parse_statement", "L52")
     /\ IF token # tc_end_of_file
          THEN Call("resync", "none", "L55")
          ELSE Return("none")
  \/ /\ At("parse_statement", "L55")
     /\ Return("none")

parse_statement ==
  \/ /\ At("parse_statement", "L10")
     /\ insert_line_marker
     /\ Goto("L12")
     /\ UNCHANGED <<visualizer, entity, profile, routine, input, markers, errors, acts>>
  \/ /\ At("parse_statement", "L12")
     /\ Handler(token) # "none"
     /\ Call(Handler(token), "none", "L52")
  \/ /\ At("parse_statement", "L12")
     /\ token = "tc_CONST"
     /\ get_token_append("L19")
  \/ /\ At("parse_statement", "L19")
     /\ Call("parse_constant_declaration", "none", "L52")
  \/ /\ At("parse_statement", "L12")
     /\ token = "tc_BREAK"
     /\ get_token_append("L52")
  \/ /\ At("parse_statement", "L12")
     /\ token = "tc_pound"
     /\ get_token("L46")
  \/ /\ At("parse_statement", "L46")
     /\ Call("parse_execute_directive", "none", "L52")
  \/ /\ At("parse_statement", "L12")
     /\ Handler(token) = "none"
     /\ token \notin {"tc_CONST", "tc_BREAK", "tc_pound"}
     /\ Branch("L52")
  \/ /\ At("parse_statement", "L52")
     /\ IF token # tc_end_of_file
          THEN Call("resync", "none", "L55")
          ELSE Return("none")
  \/ /\ At("parse_statement", "L55")
     /\ Return("none")

\* parse_statement_list testing for the terminator only on line 68
parse_statement_list_noeof ==
  \/ /\ At("parse_statement_list", "L66")
     /\ stack' = Append(SetTop([Top EXCEPT !.pc = "L67", !.iter = Len(input)]),
                        Frame("parse_statement", "none", Len(acts) + 1))
     /\ acts' = Append(acts, Act("parse_statement", "none", Top.id, "L66"))
     /\ UNCHANGED <<visualizer, entity, profile, routine, input, icode, markers, errors>>
  \/ /\ At("parse_statement_list", "L67")
     /\ token = "tc_semicolon"
     /\ get_token_append("L67")
  \/ /\ At("parse_statement_list", "L67")
     /\ token # "tc_semicolon"
     /\ Branch("L68")
  \/ /\ At("parse_statement_list", "L68")
     /\ IF (token # Top.term)
          THEN /\ Len(input) > Top.iter \/ Top.stall < MaxStall
               /\ stack' = SetTop([Top EXCEPT !.pc = "L66", !.stall =
                                     IF Len(input) > Top.iter THEN @ ELSE @ + 1])
               /\ UNCHANGED <<visualizer, entity, profile, routine, input, icode, markers, errors, acts>>
          ELSE Return("none")

\* parse_statement_list skipping one separator at most on line 67
parse_statement_list_once ==
  \/ /\ At("parse_statement_list", "L66")
     /\ stack' = Append(SetTop([Top EXCEPT !.pc = "L67", !.iter = Len(input)]),
                        Frame("parse_statement", "none", Len(acts) + 1))
     /\ acts' = Append(acts, Act("parse_statement", "none", Top.id, "L66"))
     /\ UNCHANGED <<visualizer, entity, profile, routine, input, icode, markers, errors>>
  \/ /\ At("parse_statement_list", "L67")
     /\ token = "tc_semicolon"
     /\ get_token_append("L68")
  \/ /\ At("parse_statement_list", "L67")
     /\ token # "tc_semicolon"
     /\ Branch("L68")
  \/ /\ At("parse_statement_list", "L68")
     /\ IF (token # Top.term) /\ (token # tc_end_of_file)
          THEN /\ Len(input) > Top.iter \/ Top.stall < MaxStall
               /\ stack' = SetTop([Top EXCEPT !.pc = "L66", !.stall =
                                     IF Len(input) > Top.iter THEN @ ELSE @ + 1])
               /\ UNCHANGED <<visualizer, entity, profile, routine, input, icode, markers, errors, acts>>
          ELSE Return("none")

\* parse_statement_list testing for the end of the list before its first
\* statement as well
parse_statement_list_testfirst ==
  \/ /\ At("parse_statement_list", "L66")
     /\ Top.iter = 0
     /\ token \in {Top.term, tc_end_of_file}
     /\ Return("none")
  \/ /\ At("parse_statement_list", "L66")
     /\ Top.iter # 0 \/ token \notin {Top.term, tc_end_of_file}
     /\ stack' = Append(SetTop([Top EXCEPT !.pc = "L67", !.iter = Len(input)]),
                        Frame("parse_statement", "none", Len(acts) + 1))
     /\ acts' = Append(acts, Act("parse_statement", "none", Top.id, "L66"))
     /\ UNCHANGED <<visualizer, entity, profile, routine, input, icode, markers, errors>>
  \/ /\ At("parse_statement_list", "L67")
     /\ token = "tc_semicolon"
     /\ get_token_append("L67")
  \/ /\ At("parse_statement_list", "L67")
     /\ token # "tc_semicolon"
     /\ Branch("L68")
  \/ /\ At("parse_statement_list", "L68")
     /\ IF (token # Top.term) /\ (token # tc_end_of_file)
          THEN /\ Len(input) > Top.iter \/ Top.stall < MaxStall
               /\ stack' = SetTop([Top EXCEPT !.pc = "L66", !.stall =
                                     IF Len(input) > Top.iter THEN @ ELSE @ + 1])
               /\ UNCHANGED <<visualizer, entity, profile, routine, input, icode, markers, errors, acts>>
          ELSE Return("none")

parse_statement_list ==
  \/ /\ At("parse_statement_list", "L66")
     /\ stack' = Append(SetTop([Top EXCEPT !.pc = "L67", !.iter = Len(input)]),
                        Frame("parse_statement", "none", Len(acts) + 1))
     /\ acts' = Append(acts, Act("parse_statement", "none", Top.id, "L66"))
     /\ UNCHANGED <<visualizer, entity, profile, routine, input, icode, markers, errors>>
  \/ /\ At("parse_statement_list", "L67")
     /\ token = "tc_semicolon"
     /\ get_token_append("L67")
  \/ /\ At("parse_statement_list", "L67")
     /\ token # "tc_semicolon"
     /\ Branch("L68")
  \/ /\ At("parse_statement_list", "L68")
     /\ IF (token # Top.term) /\ (token # tc_end_of_file)
          THEN /\ Len(input) > Top.iter \/ Top.stall < MaxStall
               /\ stack' = SetTop([Top EXCEPT !.pc = "L66", !.stall =
                                     IF Len(input) > Top.iter THEN @ ELSE @ + 1])
               /\ UNCHANGED <<visualizer, entity, profile, routine, input, icode, markers, errors, acts>>
          ELSE Return("none")

\* parse_WHILE returning without the fixup of line 134
parse_WHILE_nofixup ==
  \/ At("parse_WHILE", "L123") /\ put_location_marker(1, "L125")
  \/ At("parse_WHILE", "L125") /\ get_token_append("L126")
  \/ /\ At("parse_WHILE", "L126")
     /\ conditional_get_token_append("tc_left_paren", "err_missing_left_paren", "L128")
  \/ At("parse_WHILE", "L128") /\ Call("parse_expression", "none", "L128b")
  \/ At("parse_WHILE", "L128b") /\ check_boolean("L130")
  \/ /\ At("parse_WHILE", "L130")
     /\ conditional_get_token_append("tc_right_paren", "err_missing_right_paren", "L132")
  \/ At("parse_WHILE", "L132") /\ Call("parse_statement", "none", "L135")
  \/ At("parse_WHILE", "L135") /\ Return("none")

\* parse_WHILE giving up when the condition is not boolean
parse_WHILE_abort ==
  \/ At("parse_WHILE", "L123") /\ put_location_marker(1, "L125")
  \/ At("parse_WHILE", "L125") /\ get_token_append("L126")
  \/ /\ At("parse_WHILE", "L126")
     /\ conditional_get_token_append("tc_left_paren", "err_missing_left_paren", "L128")
  \/ At("parse_WHILE", "L128") /\ Call("parse_expression", "none", "L128b")
  \/ At("parse_WHILE", "L128b") /\ Top.val = "boolean" /\ check_boolean("L130")
  \/ /\ At("parse_WHILE", "L128b") /\ Top.val # "boolean"
     /\ cx_error(err_incompatible_types)
     /\ stack' = SubSeq(stack, 1, Len(stack) - 1)
     /\ acts' = [acts EXCEPT ![Top.id] =
                   [@ EXCEPT !.done = TRUE, !.hi = Len(icode),
                             !.ihi = Len(input), !.ehi = Len(errors) + 1]]
     /\ UNCHANGED <<visualizer, entity, profile, routine, input, icode, markers>>
  \/ /\ At("parse_WHILE", "L130")
     /\ conditional_get_token_append("tc_right_paren", "err_missing_right_paren", "L132")
  \/ At("parse_WHILE", "L132") /\ Call("parse_statement", "none", "L134")
  \/ At("parse_WHILE", "L134") /\ fixup_location_marker(1, "L135")
  \/ At("parse_WHILE", "L135") /\ Return("none")

\* parse_WHILE consuming whatever token follows the keyword on line 126
parse_WHILE_skip ==
  \/ At("parse_WHILE", "L123") /\ put_location_marker(1, "L125")
  \/ At("parse_WHILE", "L125") /\ get_token_append("L126")
  \/ At("parse_WHILE", "L126") /\ get_token_append("L128")
  \/ At("parse_WHILE", "L128") /\ Call("parse_expression", "none", "L128b")
  \/ At("parse_WHILE", "L128b") /\ check_boolean("L130")
  \/ /\ At("parse_WHILE", "L130")
     /\ conditional_get_token_append("tc_right_paren", "err_missing_right_paren", "L132")
  \/ At("parse_WHILE", "L132") /\ Call("parse_statement", "none", "L134")
  \/ At("parse_WHILE", "L134") /\ fixup_location_marker(1, "L135")
  \/ At("parse_WHILE", "L135") /\ Return("none")

\* parse_WHILE taking the separators after its body before the fixup
parse_WHILE_late ==
  \/ At("parse_WHILE", "L123") /\ put_location_marker(1, "L125")
  \/ At("parse_WHILE", "L125") /\ get_token_append("L126")
  \/ /\ At("parse_WHILE", "L126")
     /\ conditional_get_token_append("tc_left_paren", "err_missing_left_paren", "L128")
  \/ At("parse_WHILE", "L128") /\ Call("parse_expression", "none", "L128b")
  \/ At("parse_WHILE", "L128b") /\ check_boolean("L130")
  \/ /\ At("parse_WHILE", "L130")
     /\ conditional_get_token_append("tc_right_paren", "err_missing_right_paren", "L132")
  \/ At("parse_WHILE", "L132") /\ Call("parse_statement", "none", "L134")
  \/ At("parse_WHILE", "L134") /\ token = "tc_semicolon" /\ get_token_append("L134")
  \/ /\ At("parse_WHILE", "L134") /\ token # "tc_semicolon"
     /\ fixup_location_marker(1, "L135")
  \/ At("parse_WHILE", "L135") /\ Return("none")

parse_WHILE ==
  \/ At("parse_WHILE", "L123") /\ put_location_marker(1, "L125")
  \/ At("parse_WHILE", "L125") /\ get_token_append("L126")
  \/ /\ At("parse_WHILE", "L126")
     /\ conditional_get_token_append("tc_left_paren", "err_missing_left_paren", "L128")
  \/ At("parse_WHILE", "L128") /\ Call("parse_expression", "none", "L128b")
  \/ At("parse_WHILE", "L128b") /\ check_boolean("L130")
  \/ /\ At("parse_WHILE", "L130")
     /\ conditional_get_token_append("tc_right_paren", "err_missing_right_paren", "L132")
  \/ At("parse_WHILE", "L132") /\ Call("parse_statement", "none", "L134")
  \/ At("parse_WHILE", "L134") /\ fixup_location_marker(1, "L135")
  \/ At("parse_WHILE", "L135") /\ Return("none")

\* parse_DO reserving its marker after it has consumed the keyword
parse_DO_late ==
  \/ At("parse_DO", "L99") /\ get_token_append("L100")
  \/ At("parse_DO", "L100") /\ put_location_marker(1, "L102")
  \/ At("parse_DO", "L102") /\ Call("parse_statement_list", "tc_WHILE", "L104")
  \/ /\ At("parse_DO", "L104")
     /\ conditional_get_token_append("tc_WHILE", "err_missing_WHILE", "L105")
  \/ /\ At("parse_DO", "L105")
     /\ conditional_get_token_append("tc_left_paren", "err_missing_left_paren", "L107")
  \/ At("parse_DO", "L107") /\ Call("parse_expression", "none", "L107b")
  \/ At("parse_DO", "L107b") /\ check_boolean("L109")
  \/ /\ At("parse_DO", "L109")
     /\ conditional_get_token_append("tc_right_paren", "err_missing_right_paren", "L111")
  \/ At("parse_DO", "L111") /\ fixup_location_marker(1, "L112")
  \/ At("parse_DO", "L112") /\ Return("none")

\* parse_DO fixing up its marker before it requires the closing `)`
parse_DO_earlyfix ==
  \/ At("parse_DO", "L99") /\ put_location_marker(1, "L100")
  \/ At("parse_DO", "L100") /\ get_token_append("L102")
  \/ At("parse_DO", "L102") /\ Call("parse_statement_list", "tc_WHILE", "L104")
  \/ /\ At("parse_DO", "L104")
     /\ conditional_get_token_append("tc_WHILE", "err_missing_WHILE", "L105")
  \/ /\ At("parse_DO", "L105")
     /\ conditional_get_token_append("tc_left_paren", "err_missing_left_paren", "L107")
  \/ At("parse_DO", "L107") /\ Call("parse_expression", "none", "L107b")
  \/ At("parse_DO", "L107b") /\ check_boolean("L109")
  \/ At("parse_DO", "L109") /\ fixup_location_marker(1, "L111")
  \/ /\ At("parse_DO", "L111")
     /\ conditional_get_token_append("tc_right_paren", "err_missing_right_paren", "L112")
  \/ At("parse_DO", "L112") /\ Return("none")

parse_DO ==
  \/ At("parse_DO", "L99") /\ put_location_marker(1, "L100")
  \/ At("parse_DO", "L100") /\ get_token_append("L102")
  \/ At("parse_DO", "L102") /\ Call("parse_statement_list", "tc_WHILE", "L104")
  \/ /\ At("parse_DO", "L104")
     /\ conditional_get_token_append("tc_WHILE", "err_missing_WHILE", "L105")
  \/ /\ At("parse_DO", "L105")
     /\ conditional_get_token_append("tc_left_paren", "err_missing_left_paren", "L107")
  \/ At("parse_DO", "L107") /\ Call("parse_expression", "none", "L107b")
  \/ At("parse_DO", "L107b") /\ check_boolean("L109")
  \/ /\ At("parse_DO", "L109")
     /\ conditional_get_token_append("tc_right_paren", "err_missing_right_paren", "L111")
  \/ At("parse_DO", "L111") /\ fixup_location_marker(1, "L112")
  \/ At("parse_DO", "L112") /\ Return("none")

\* parse_IF fixing up at_false_location_marker again on line 176
parse_IF_refix ==
  \/ At("parse_IF", "L153") /\ put_location_marker(1, "L155")
  \/ At("parse_IF", "L155") /\ get_token_append("L156")
  \/ /\ At("parse_IF", "L156")
     /\ conditional_get_token_append("tc_left_paren", "err_missing_left_paren", "L158")
  \/ At("parse_IF", "L158") /\ Call("parse_expression", "none", "L158b")
  \/ At("parse_IF", "L158b") /\ check_boolean("L160")
  \/ /\ At("parse_IF", "L160")
     /\ conditional_get_token_append("tc_right_paren", "err_missing_right_paren", "L162")
  \/ At("parse_IF", "L162") /\ Call("parse_statement", "none", "L163")
  \/ At("parse_IF", "L163") /\ token = "tc_semicolon" /\ get_token_append("L163")
  \/ At("parse_IF", "L163") /\ token # "tc_semicolon" /\ Branch("L165")
  \/ At("parse_IF", "L165") /\ fixup_location_marker(1, "L166")
  \/ /\ At("parse_IF", "L166")
     /\ IF token = "tc_ELSE" THEN Branch("L170") ELSE Return("none")
  \/ At("parse_IF", "L170") /\ put_location_marker(2, "L172")
  \/ At("parse_IF", "L172") /\ get_token_append("L173")
  \/ At("parse_IF", "L173") /\ Call("parse_statement", "none", "L174")
  \/ At("parse_IF", "L174") /\ token = "tc_semicolon" /\ get_token_append("L174")
  \/ At("parse_IF", "L174") /\ token # "tc_semicolon" /\ Branch("L176")
  \/ At("parse_IF", "L176") /\ fixup_location_marker(1, "L178")
  \/ At("parse_IF", "L178") /\ Return("none")

\* parse_IF with lines 163 and 165 exchanged: the false-branch marker is fixed
\* up before the stray separators are consumed
parse_IF_early ==
  \/ At("parse_IF", "L153") /\ put_location_marker(1, "L155")
  \/ At("parse_IF", "L155") /\ get_token_append("L156")
  \/ /\ At("parse_IF", "L156")
     /\ conditional_get_token_append("tc_left_paren", "err_missing_left_paren", "L158")
  \/ At("parse_IF", "L158") /\ Call("parse_expression", "none", "L158b")
  \/ At("parse_IF", "L158b") /\ check_boolean("L160")
  \/ /\ At("parse_IF", "L160")
     /\ conditional_get_token_append("tc_right_paren", "err_missing_right_paren", "L162")
  \/ At("parse_IF", "L162") /\ Call("parse_statement", "none", "L165")
  \/ At("parse_IF", "L163") /\ token = "tc_semicolon" /\ get_token_append("L163")
  \/ At("parse_IF", "L163") /\ token # "tc_semicolon" /\ Branch("L166")
  \/ At("parse_IF", "L165") /\ fixup_location_marker(1, "L163")
  \/ /\ At("parse_IF", "L166")
     /\ IF token = "tc_ELSE" THEN Branch("L170") ELSE Return("none")
  \/ At("parse_IF", "L170") /\ put_location_marker(2, "L172")
  \/ At("parse_IF", "L172") /\ get_token_append("L173")
  \/ At("parse_IF", "L173") /\ Call("parse_statement", "none", "L174")
  \/ At("parse_IF", "L174") /\ token = "tc_semicolon" /\ get_token_append("L174")
  \/ At("parse_IF", "L174") /\ token # "tc_semicolon" /\ Branch("L176")
  \/ At("parse_IF", "L176") /\ fixup_location_marker(2, "L178")
  \/ At("parse_IF", "L178") /\ Return("none")

\* parse_IF fixing up at_follow_location_marker before the else statement is
\* parsed
parse_IF_prefix ==
  \/ At("parse_IF", "L153") /\ put_location_marker(1, "L155")
  \/ At("parse_IF", "L155") /\ get_token_append("L156")
  \/ /\ At("parse_IF", "L156")
     /\ conditional_get_token_append("tc_left_paren", "err_missing_left_paren", "L158")
  \/ At("parse_IF", "L158") /\ Call("parse_expression", "none", "L158b")
  \/ At("parse_IF", "L158b") /\ check_boolean("L160")
  \/ /\ At("parse_IF", "L160")
     /\ conditional_get_token_append("tc_right_paren", "err_missing_right_paren", "L162")
  \/ At("parse_IF", "L162") /\ Call("parse_statement", "none", "L163")
  \/ At("parse_IF", "L163") /\ token = "tc_semicolon" /\ get_token_append("L163")
  \/ At("parse_IF", "L163") /\ token # "tc_semicolon" /\ Branch("L165")
  \/ At("parse_IF", "L165") /\ fixup_location_marker(1, "L166")
  \/ /\ At("parse_IF", "L166")
     /\ IF token = "tc_ELSE" THEN Branch("L170") ELSE Return("none")
  \/ At("parse_IF", "L170") /\ put_location_marker(2, "L172")
  \/ At("parse_IF", "L172") /\ get_token_append("L176")
  \/ At("parse_IF", "L173") /\ Call("parse_statement", "none", "L174")
  \/ At("parse_IF", "L174") /\ token = "tc_semicolon" /\ get_token_append("L174")
  \/ At("parse_IF", "L174") /\ token # "tc_semicolon" /\ Branch("L178")
  \/ At("parse_IF", "L176") /\ fixup_location_marker(2, "L173")
  \/ At("parse_IF", "L178") /\ Return("none")

\* parse_IF reserving at_follow_location_marker before it tests for else
parse_IF_reserve ==
  \/ At("parse_IF", "L153") /\ put_location_marker(1, "L155")
  \/ At("parse_IF", "L155") /\ get_token_append("L156")
  \/ /\ At("parse_IF", "L156")
     /\ conditional_get_token_append("tc_left_paren", "err_missing_left_paren", "L158")
  \/ At("parse_IF", "L158") /\ Call("parse_expression", "none", "L158b")
  \/ At("parse_IF", "L158b") /\ check_boolean("L160")
  \/ /\ At("parse_IF", "L160")
     /\ conditional_get_token_append("tc_right_paren", "err_missing_right_paren", "L162")
  \/ At("parse_IF", "L162") /\ Call("parse_statement", "none", "L163")
  \/ At("parse_IF", "L163") /\ token = "tc_semicolon" /\ get_token_append("L163")
  \/ At("parse_IF", "L163") /\ token # "tc_semicolon" /\ Branch("L165")
  \/ At("parse_IF", "L165") /\ fixup_location_marker(1, "L166")
  \/ At("parse_IF", "L166") /\ Branch("L170")
  \/ /\ At("parse_IF", "L170")
     /\ put_location_marker(2, IF token = "tc_ELSE" THEN "L172" ELSE "L176")
  \/ At("parse_IF", "L172") /\ get_token_append("L173")
  \/ At("parse_IF", "L173") /\ Call("parse_statement", "none", "L174")
  \/ At("parse_IF", "L174") /\ token = "tc_semicolon" /\ get_token_append("L174")
  \/ At("parse_IF", "L174") /\ token # "tc_semicolon" /\ Branch("L176")
  \/ At("parse_IF", "L176") /\ fixup_location_marker(2, "L178")
  \/ At("parse_IF", "L178") /\ Return("none")

\* the running if is the then-branch of another if
InThenBranch ==
  /\ Len(stack) >= 3
  /\ stack[Len(stack) - 2].fn = "parse_IF"
  /\ stack[Len(stack) - 2].pc = "L163"

\* parse_IF leaving an else to the if it is the then-branch of
parse_IF_outer ==
  \/ At("parse_IF", "L153") /\ put_location_marker(1, "L155")
  \/ At("parse_IF", "L155") /\ get_token_append("L156")
  \/ /\ At("parse_IF", "L156")
     /\ conditional_get_token_append("tc_left_paren", "err_missing_left_paren", "L158")
  \/ At("parse_IF", "L158") /\ Call("parse_expression", "none", "L158b")
  \/ At("parse_IF", "L158b") /\ check_boolean("L160")
  \/ /\ At("parse_IF", "L160")
     /\ conditional_get_token_append("tc_right_paren", "err_missing_right_paren", "L162")
  \/ At("parse_IF", "L162") /\ Call("parse_statement", "none", "L163")
  \/ At("parse_IF", "L163") /\ token = "tc_semicolon" /\ get_token_append("L163")
  \/ At("parse_IF", "L163") /\ token # "tc_semicolon" /\ Branch("L165")
  \/ At("parse_IF", "L165") /\ fixup_location_marker(1, "L166")
  \/ /\ At("parse_IF", "L166")
     /\ IF token = "tc_ELSE" /\ ~InThenBranch THEN Branch("L170") ELSE Return("none")
  \/ At("parse_IF", "L170") /\ put_location_marker(2, "L172")
  \/ At("parse_IF", "L172") /\ get_token_append("L173")
  \/ At("parse_IF", "L173") /\ Call("parse_statement", "none", "L174")
  \/ At("parse_IF", "L174") /\ token = "tc_semicolon" /\ get_token_append("L174")
  \/ At("parse_IF", "L174") /\ token # "tc_semicolon" /\ Branch("L176")
  \/ At("parse_IF", "L176") /\ fixup_location_marker(2, "L178")
  \/ At("parse_IF", "L178") /\ Return("none")

parse_IF ==
  \/ At("parse_IF", "L153") /\ put_location_marker(1, "L155")
  \/ At("parse_IF", "L155") /\ get_token_append("L156")
  \/ /\ At("parse_IF", "L156")
     /\ conditional_get_token_append("tc_left_paren", "err_missing_left_paren", "L158")
  \/ At("parse_IF", "L158") /\ Call("parse_expression", "none", "L158b")
  \/ At("parse_IF", "L158b") /\ check_boolean("L160")
  \/ /\ At("parse_IF", "L160")
     /\ conditional_get_token_append("tc_right_paren", "err_missing_right_paren", "L162")
  \/ At("parse_IF", "L162") /\ Call("parse_statement", "none", "L163")
  \/ At("parse_IF", "L163") /\ token = "tc_semicolon" /\ get_token_append("L163")
  \/ At("parse_IF", "L163") /\ token # "tc_semicolon" /\ Branch("L165")
  \/ At("parse_IF", "L165") /\ fixup_location_marker(1, "L166")
  \/ /\ At("parse_IF", "L166")
     /\ IF token = "tc_ELSE" THEN Branch("L170") ELSE Return("none")
  \/ At("parse_IF", "L170") /\ put_location_marker(2, "L172")
  \/ At("parse_IF", "L172") /\ get_token_append("L173")
  \/ At("parse_IF", "L173") /\ Call("parse_statement", "none", "L174")
  \/ At("parse_IF", "L174") /\ token = "tc_semicolon" /\ get_token_append("L174")
  \/ At("parse_IF", "L174") /\ token # "tc_semicolon" /\ Branch("L176")
  \/ At("parse_IF", "L176") /\ fixup_location_marker(2, "L178")
  \/ At("parse_IF", "L178") /\ Return("none")

\* the locals of parse_FOR that hold its markers
break_point == 1
statementMarker == 2
condition_marker == 3
increment_marker == 4

\* parse_FOR parsing the body statement before the increment expression
parse_FOR_bodyfirst ==
  \/ At("parse_FOR", "L189") /\ put_location_marker(break_point, "L190")
  \/ At("parse_FOR", "L190") /\ put_location_marker(statementMarker, "L191")
  \/ At("parse_FOR", "L191") /\ put_location_marker(condition_marker, "L192")
  \/ At("parse_FOR", "L192") /\ put_location_marker(increment_marker, "L194")
  \/ At("parse_FOR", "L194") /\ get_token_append("L196")
  \/ /\ At("parse_FOR", "L196")
     /\ conditional_get_token_append("tc_left_paren", "err_missing_left_paren", "L198")
  \/ /\ At("parse_FOR", "L198")
     /\ token # "tc_semicolon"
     /\ Call("parse_declarations_or_assignment", "none", "L201")
  \/ /\ At("parse_FOR", "L201")
     /\ conditional_get_token_append("tc_semicolon", "err_missing_semicolon", "L204")
  \/ At("parse_FOR", "L198") /\ token = "tc_semicolon" /\ get_token_append("L204")
  \/ At("parse_FOR", "L204") /\ fixup_location_marker(condition_marker, "L205")
  \/ /\ At("parse_FOR", "L205")
     /\ token # "tc_semicolon"
     /\ Call("parse_expression", "none", "L208b")
  \/ At("parse_FOR", "L208b") /\ check_boolean("L209")
  \/ /\ At("parse_FOR", "L209")
     /\ conditional_get_token_append("tc_semicolon", "err_missing_semicolon", "L212")
  \/ At("parse_FOR", "L205") /\ token = "tc_semicolon" /\ get_token_append("L212")
  \/ At("parse_FOR", "L212") /\ fixup_location_marker(increment_marker, "L220")
  \/ /\ At("parse_FOR", "L213")
     /\ token # "tc_right_paren"
     /\ Call("parse_expression", "none", "L215b")
  \/ At("parse_FOR", "L215b") /\ Discard("L218")
  \/ At("parse_FOR", "L213") /\ token = "tc_right_paren" /\ Branch("L218")
  \/ /\ At("parse_FOR", "L218")
     /\ conditional_get_token_append("tc_right_paren", "err_missing_right_paren", "L219")
  \/ At("parse_FOR", "L219") /\ fixup_location_marker(statementMarker, "L221")
  \/ At("parse_FOR", "L220") /\ Call("parse_statement", "none", "L213")
  \/ At("parse_FOR", "L221") /\ fixup_location_marker(break_point, "L223")
  \/ At("parse_FOR", "L223") /\ Return("none")

\* parse_FOR with the markers of lines 204 and 212 exchanged
parse_FOR_swapfix ==
  \/ At("parse_FOR", "L189") /\ put_location_marker(break_point, "L190")
  \/ At("parse_FOR", "L190") /\ put_location_marker(statementMarker, "L191")
  \/ At("parse_FOR", "L191") /\ put_location_marker(condition_marker, "L192")
  \/ At("parse_FOR", "L192") /\ put_location_marker(increment_marker, "L194")
  \/ At("parse_FOR", "L194") /\ get_token_append("L196")
  \/ /\ At("parse_FOR", "L196")
     /\ conditional_get_token_append("tc_left_paren", "err_missing_left_paren", "L198")
  \/ /\ At("parse_FOR", "L198")
     /\ token # "tc_semicolon"
     /\ Call("parse_declarations_or_assignment", "none", "L201")
  \/ /\ At("parse_FOR", "L201")
     /\ conditional_get_token_append("tc_semicolon", "err_missing_semicolon", "L204")
  \/ At("parse_FOR", "L198") /\ token = "tc_semicolon" /\ get_token_append("L204")
  \/ At("parse_FOR", "L204") /\ fixup_location_marker(increment_marker, "L205")
  \/ /\ At("parse_FOR", "L205")
     /\ token # "tc_semicolon"
     /\ Call("parse_expression", "none", "L208b")
  \/ At("parse_FOR", "L208b") /\ check_boolean("L209")
  \/ /\ At("parse_FOR", "L209")
     /\ conditional_get_token_append("tc_semicolon", "err_missing_semicolon", "L212")
  \/ At("parse_FOR", "L205") /\ token = "tc_semicolon" /\ get_token_append("L212")
  \/ At("parse_FOR", "L212") /\ fixup_location_marker(condition_marker, "L213")
  \/ /\ At("parse_FOR", "L213")
     /\ token # "tc_right_paren"
     /\ Call("parse_expression", "none", "L215b")
  \/ At("parse_FOR", "L215b") /\ Discard("L218")
  \/ At("parse_FOR", "L213") /\ token = "tc_right_paren" /\ Branch("L218")
  \/ /\ At("parse_FOR", "L218")
     /\ conditional_get_token_append("tc_right_paren", "err_missing_right_paren", "L219")
  \/ At("parse_FOR", "L219") /\ fixup_location_marker(statementMarker, "L220")
  \/ At("parse_FOR", "L220") /\ Call("parse_statement", "none", "L221")
  \/ At("parse_FOR", "L221") /\ fixup_location_marker(break_point, "L223")
  \/ At("parse_FOR", "L223") /\ Return("none")

\* parse_FOR parsing a condition whatever token follows the first separator
parse_FOR_cond ==
  \/ At("parse_FOR", "L189") /\ put_location_marker(break_point, "L190")
  \/ At("parse_FOR", "L190") /\ put_location_marker(statementMarker, "L191")
  \/ At("parse_FOR", "L191") /\ put_location_marker(condition_marker, "L192")
  \/ At("parse_FOR", "L192") /\ put_location_marker(increment_marker, "L194")
  \/ At("parse_FOR", "L194") /\ get_token_append("L196")
  \/ /\ At("parse_FOR", "L196")
     /\ conditional_get_token_append("tc_left_paren", "err_missing_left_paren", "L198")
  \/ /\ At("parse_FOR", "L198")
     /\ token # "tc_semicolon"
     /\ Call("parse_declarations_or_assignment", "none", "L201")
  \/ /\ At("parse_FOR", "L201")
     /\ conditional_get_token_append("tc_semicolon", "err_missing_semicolon", "L204")
  \/ At("parse_FOR", "L198") /\ token = "tc_semicolon" /\ get_token_append("L204")
  \/ At("parse_FOR", "L204") /\ fixup_location_marker(condition_marker, "L205")
  \/ At("parse_FOR", "L205") /\ Call("parse_expression", "none", "L208b")
  \/ At("parse_FOR", "L208b") /\ check_boolean("L209")
  \/ /\ At("parse_FOR", "L209")
     /\ conditional_get_token_append("tc_semicolon", "err_missing_semicolon", "L212")
  \/ At("parse_FOR", "L212") /\ fixup_location_marker(increment_marker, "L213")
  \/ /\ At("parse_FOR", "L213")
     /\ token # "tc_right_paren"
     /\ Call("parse_expression", "none", "L215b")
  \/ At("parse_FOR", "L215b") /\ Discard("L218")
  \/ At("parse_FOR", "L213") /\ token = "tc_right_paren" /\ Branch("L218")
  \/ /\ At("parse_FOR", "L218")
     /\ conditional_get_token_append("tc_right_paren", "err_missing_right_paren", "L219")
  \/ At("parse_FOR", "L219") /\ fixup_location_marker(statementMarker, "L220")
  \/ At("parse_FOR", "L220") /\ Call("parse_statement", "none", "L221")
  \/ At("parse_FOR", "L221") /\ fixup_location_marker(break_point, "L223")
  \/ At("parse_FOR", "L223") /\ Return("none")

parse_FOR ==
  \/ At("parse_FOR", "L189") /\ put_location_marker(break_point, "L190")
  \/ At("parse_FOR", "L190") /\ put_location_marker(statementMarker, "L191")
  \/ At("parse_FOR", "L191") /\ put_location_marker(condition_marker, "L192")
  \/ At("parse_FOR", "L192") /\ put_location_marker(increment_marker, "L194")
  \/ At("parse_FOR", "L194") /\ get_token_append("L196")
  \/ /\ At("parse_FOR", "L196")
     /\ conditional_get_token_append("tc_left_paren", "err_missing_left_paren", "L198")
  \/ /\ At("parse_FOR", "L198")
     /\ token # "tc_semicolon"
     /\ Call("parse_declarations_or_assignment", "none", "L201")
  \/ /\ At("parse_FOR", "L201")
     /\ conditional_get_token_append("tc_semicolon", "err_missing_semicolon", "L204")
  \/ At("parse_FOR", "L198") /\ token = "tc_semicolon" /\ get_token_append("L204")
  \/ At("parse_FOR", "L204") /\ fixup_location_marker(condition_marker, "L205")
  \/ /\ At("parse_FOR", "L205")
     /\ token # "tc_semicolon"
     /\ Call("parse_expression", "none", "L208b")
  \/ At("parse_FOR", "L208b") /\ check_boolean("L209")
  \/ /\ At("parse_FOR", "L209")
     /\ conditional_get_token_append("tc_semicolon", "err_missing_semicolon", "L212")
  \/ At("parse_FOR", "L205") /\ token = "tc_semicolon" /\ get_token_append("L212")
  \/ At("parse_FOR", "L212") /\ fixup_location_marker(increment_marker, "L213")
  \/ /\ At("parse_FOR", "L213")
     /\ token # "tc_right_paren"
     /\ Call("parse_expression", "none", "L215b")
  \/ At("parse_FOR", "L215b") /\ Discard("L218")
  \/ At("parse_FOR", "L213") /\ token = "tc_right_paren" /\ Branch("L218")
  \/ /\ At("parse_FOR", "L218")
     /\ conditional_get_token_append("tc_right_paren", "err_missing_right_paren", "L219")
  \/ At("parse_FOR", "L219") /\ fixup_location_marker(statementMarker, "L220")
  \/ At("parse_FOR", "L220") /\ Call("parse_statement", "none", "L221")
  \/ At("parse_FOR", "L221") /\ fixup_location_marker(break_point, "L223")
  \/ At("parse_FOR", "L223") /\ Return("none")

\* the selector test admitting integers only
SelectorType_integer(ty) == ty = "integer"

\* the selector test of parse_SWITCH: an integer, a character or an enumeration
SelectorType(ty) == ty \in {"integer", "char", "enum"}

\* parse_SWITCH giving up the statement when the selector's type is wrong
parse_SWITCH_abort ==
  \/ At("parse_SWITCH", "L239") /\ get_token_append("L240")
  \/ /\ At("parse_SWITCH", "L240")
     /\ conditional_get_token_append("tc_left_paren", "err_missing_left_paren", "L242")
  \/ At("parse_SWITCH", "L242") /\ Call("parse_expression", "none", "L244")
  \/ /\ At("parse_SWITCH", "L244")
     /\ conditional_get_token_append("tc_right_paren", "err_missing_right_paren", "L246")
  \/ /\ At("parse_SWITCH", "L246")
     /\ SelectorType(Top.val)
     /\ stack' = SetTop([Top EXCEPT !.pc = "L252", !.val = "none"])
     /\ UNCHANGED <<visualizer, entity, profile, routine, input, icode, markers, errors, acts>>
  \/ /\ At("parse_SWITCH", "L246")
     /\ ~SelectorType(Top.val)
     /\ cx_error(err_incompatible_types)
     /\ stack' = SubSeq(stack, 1, Len(stack) - 1)
     /\ acts' = [acts EXCEPT ![Top.id] =
                   [@ EXCEPT !.done = TRUE, !.hi = Len(icode),
                             !.ihi = Len(input), !.ehi = Len(errors) + 1]]
     /\ UNCHANGED <<visualizer, entity, profile, routine, input, icode, markers>>
  \/ At("parse_SWITCH", "L252") /\ Call("parse_statement", "none", "L254")
  \/ At("parse_SWITCH", "L254") /\ Return("none")

parse_SWITCH ==
  \/ At("parse_SWITCH", "L239") /\ get_token_append("L240")
  \/ /\ At("parse_SWITCH", "L240")
     /\ conditional_get_token_append("tc_left_paren", "err_missing_left_paren", "L242")
  \/ At("parse_SWITCH", "L242") /\ Call("parse_expression", "none", "L244")
  \/ /\ At("parse_SWITCH", "L244")
     /\ conditional_get_token_append("tc_right_paren", "err_missing_right_paren", "L246")
  \/ /\ At("parse_SWITCH", "L246")
     /\ IF ~SelectorType(Top.val) THEN cx_error(err_incompatible_types)
                                  ELSE UNCHANGED errors
     /\ stack' = SetTop([Top EXCEPT !.pc = "L252", !.val = "none"])
     /\ UNCHANGED <<visualizer, entity, profile, routine, input, icode, markers, acts>>
  \/ At("parse_SWITCH", "L252") /\ Call("parse_statement", "none", "L254")
  \/ At("parse_SWITCH", "L254") /\ Return("none")

\* parse_RETURN checking its expression as the loops check their conditions
parse_RETURN_boolean ==
  \/ At("parse_RETURN", "L328") /\ get_token_append("L331")
  \/ At("parse_RETURN", "L331") /\ Call("parse_expression", "none", "L331b")
  \/ /\ At("parse_RETURN", "L331b")
     /\ check_boolean("L333")
  \/ At("parse_RETURN", "L333") /\ Return("none")

parse_RETURN ==
  \/ At("parse_RETURN", "L328") /\ get_token_append("L331")
  \/ At("parse_RETURN", "L331") /\ Call("parse_expression", "none", "L331b")
  \/ /\ At("parse_RETURN", "L331b")
     /\ check_assignment_type_compatible(routine.p_type, err_incompatible_types, "L333")
  \/ At("parse_RETURN", "L333") /\ Return("none")

\* parse_compound without the special case of line 313
parse_compound_always ==
  \/ At("parse_compound", "L309") /\ get_token_append("L311")
  \/ /\ At("parse_compound", "L311")
     /\ Call("parse_statement_list", "tc_right_bracket", "L313")
  \/ /\ At("parse_compound", "L313")
     /\ Branch("L316")
  \/ /\ At("parse_compound", "L316")
     /\ conditional_get_token_append("tc_right_bracket", "err_missing_right_bracket", "L317")
  \/ At("parse_compound", "L317") /\ Return("none")

\* parse_compound taking a closing delimiter that is there in every routine
parse_compound_present ==
  \/ At("parse_compound", "L309") /\ get_token_append("L311")
  \/ /\ At("parse_compound", "L311")
     /\ Call("parse_statement_list", "tc_right_bracket", "L313")
  \/ /\ At("parse_compound", "L313")
     /\ IF routine.which = "func_std_iterator" /\ token # "tc_right_bracket"
          THEN Return("none")
          ELSE Branch("L316")
  \/ /\ At("parse_compound", "L316")
     /\ conditional_get_token_append("tc_right_bracket", "err_missing_right_bracket", "L317")
  \/ At("parse_compound", "L317") /\ Return("none")

\* parse_compound consuming the closing delimiter of a routine's outermost
\* block in every routine
parse_compound_outer ==
  \/ At("parse_compound", "L309") /\ get_token_append("L311")
  \/ /\ At("parse_compound", "L311")
     /\ Call("parse_statement_list", "tc_right_bracket", "L313")
  \/ /\ At("parse_compound", "L313")
     /\ IF routine.which = "func_std_iterator" /\ Len(stack) > 2
          THEN Return("none")
          ELSE Branch("L316")
  \/ /\ At("parse_compound", "L316")
     /\ conditional_get_token_append("tc_right_bracket", "err_missing_right_bracket", "L317")
  \/ At("parse_compound", "L317") /\ Return("none")

parse_compound ==
  \/ At("parse_compound", "L309") /\ get_token_append("L311")
  \/ /\ At("parse_compound", "L311")
     /\ Call("parse_statement_list", "tc_right_bracket", "L313")
  \/ /\ At("parse_compound", "L313")
     /\ IF routine.which = "func_std_iterator"
          THEN Return("none")
          ELSE Branch("L316")
  \/ /\ At("parse_compound", "L316")
     /\ conditional_get_token_append("tc_right_bracket", "err_missing_right_bracket", "L317")
  \/ At("parse_compound", "L317") /\ Return("none")

Next ==
  \/ parse_statement
  \/ parse_statement_list
  \/ parse_DO
  \/ parse_WHILE
  \/ parse_IF
  \/ parse_FOR
  \/ parse_SWITCH
  \/ parse_compound
  \/ parse_RETURN
  \/ parse_expression
  \/ parse_declarations_or_assignment
  \/ parse_constant_declaration
  \/ parse_execute_directive
  \/ parse_execute_directive_end
  \/ resync

Spec == Init /\ [][Next]_vars

(* ------------------------------------------------------------------ *)
(* The case-label validator on its own                                  *)
(* ------------------------------------------------------------------ *)

\* the signs a case label may carry
tokenlist_unary_ops == {"tc_plus", "tc_minus"}

\* what the scanner and the symbol table say of the label token: whether
\* search_all finds the identifier, whether the number is an integer, and the
\* length of the string's text, quotes included
Labels == [found : BOOLEAN, integer : BOOLEAN, strlen : {3, 4}]

GoodLabel == [found |-> TRUE, integer |-> TRUE, strlen |-> 3]

\* the tokens of a case label
LabelTokens ==
  {"tc_identifier", "tc_number", "tc_string", "tc_minus", "tc_colon"}

\* the longest label, its case and its colon included
MaxLabel == 4

\* case <integer> :
CaseHead == <<"tc_CASE", "tc_number", "tc_colon">>

\* inputs of the validator: any label, and a good label before each of the
\* inputs of the statement parser
CaseProfiles ==
  {[text |-> <<"tc_CASE">>, alpha |-> LabelTokens, len |-> MaxLabel, label |-> b] :
     b \in Labels}
  \cup {[text |-> CaseHead \o p.text, alpha |-> p.alpha,
         len |-> Len(CaseHead) + p.len, label |-> GoodLabel] : p \in Profiles}

\* reads of the current token's attributes
search_all == profile.label.found

token_is_integer == profile.label.integer

token_strlen == profile.label.strlen

\* parse_case_label giving up after a report instead of requiring the colon
parse_case_label_stop ==
  \/ At("parse_case_label", "L265") /\ get_token_append("L269")
  \/ /\ At("parse_case_label", "L269")
     /\ token \in tokenlist_unary_ops
     /\ Advance
     /\ icode' = Append(icode, token)
     /\ stack' = SetTop([Top EXCEPT !.pc = "L274", !.sign_flag = TRUE])
     /\ UNCHANGED <<visualizer, entity, profile, routine, markers, errors, acts>>
  \/ At("parse_case_label", "L269") /\ token \notin tokenlist_unary_ops /\ Branch("L274")
  \/ At("parse_case_label", "L274") /\ token = "tc_identifier" /\ Branch("L275")
  \/ At("parse_case_label", "L274") /\ token = "tc_number" /\ Branch("L282")
  \/ At("parse_case_label", "L274") /\ token = "tc_string" /\ Branch("L286")
  \/ /\ At("parse_case_label", "L274")
     /\ token \notin {"tc_identifier", "tc_number", "tc_string"}
     /\ Branch("L295")
  \/ /\ At("parse_case_label", "L275")
     /\ IF ~search_all THEN cx_error("err_undefined_identifier")
                       ELSE UNCHANGED errors
     /\ Goto(IF search_all THEN "L279" ELSE "L298")
     /\ UNCHANGED <<visualizer, entity, profile, routine, input, icode, markers, acts>>
  \/ At("parse_case_label", "L279") /\ get_token_append("L295")
  \/ /\ At("parse_case_label", "L282")
     /\ IF ~token_is_integer THEN cx_error("err_invalid_constant")
                             ELSE UNCHANGED errors
     /\ Goto("L283")
     /\ UNCHANGED <<visualizer, entity, profile, routine, input, icode, markers, acts>>
  \/ At("parse_case_label", "L283") /\ get_token_append("L295")
  \/ /\ At("parse_case_label", "L286")
     /\ IF Top.sign_flag \/ token_strlen # 3 THEN cx_error("err_invalid_constant")
                                              ELSE UNCHANGED errors
     /\ Goto("L295")
     /\ UNCHANGED <<visualizer, entity, profile, routine, input, icode, markers, acts>>
  \/ /\ At("parse_case_label", "L295")
     /\ conditional_get_token_append("tc_colon", "err_missing_colon", "L297")
  \/ /\ At("parse_case_label", "L297")
     /\ Call("parse_statement_list", "tc_BREAK", "L298")
  \/ At("parse_case_label", "L298") /\ Return("none")

parse_case_label ==
  \/ At("parse_case_label", "L265") /\ get_token_append("L269")
  \/ /\ At("parse_case_label", "L269")
     /\ token \in tokenlist_unary_ops
     /\ Advance
     /\ icode' = Append(icode, token)
     /\ stack' = SetTop([Top EXCEPT !.pc = "L274", !.sign_flag = TRUE])
     /\ UNCHANGED <<visualizer, entity, profile, routine, markers, errors, acts>>
  \/ At("parse_case_label", "L269") /\ token \notin tokenlist_unary_ops /\ Branch("L274")
  \/ At("parse_case_label", "L274") /\ token = "tc_identifier" /\ Branch("L275")
  \/ At("parse_case_label", "L274") /\ token = "tc_number" /\ Branch("L282")
  \/ At("parse_case_label", "L274") /\ token = "tc_string" /\ Branch("L286")
  \/ /\ At("parse_case_label", "L274")
     /\ token \notin {"tc_identifier", "tc_number", "tc_string"}
     /\ Branch("L295")
  \/ /\ At("parse_case_label", "L275")
     /\ IF ~search_all THEN cx_error("err_undefined_identifier")
                       ELSE UNCHANGED errors
     /\ Goto("L279")
     /\ UNCHANGED <<visualizer, entity, profile, routine, input, icode, markers, acts>>
  \/ At("parse_case_label", "L279") /\ get_token_append("L295")
  \/ /\ At("parse_case_label", "L282")
     /\ IF ~token_is_integer THEN cx_error("err_invalid_constant")
                             ELSE UNCHANGED errors
     /\ Goto("L283")
     /\ UNCHANGED <<visualizer, entity, profile, routine, input, icode, markers, acts>>
  \/ At("parse_case_label", "L283") /\ get_token_append("L295")
  \/ /\ At("parse_case_label", "L286")
     /\ IF Top.sign_flag \/ token_strlen # 3 THEN cx_error("err_invalid_constant")
                                              ELSE UNCHANGED errors
     /\ Goto("L295")
     /\ UNCHANGED <<visualizer, entity, profile, routine, input, icode, markers, acts>>
  \/ /\ At("parse_case_label", "L295")
     /\ conditional_get_token_append("tc_colon", "err_missing_colon", "L297")
  \/ /\ At("parse_case_label", "L297")
     /\ Call("parse_statement_list", "tc_BREAK", "L298")
  \/ At("parse_case_label", "L298") /\ Return("none")

\* the validator is given a case token
InitCase ==
  /\ AConsciousnessNetworkVisualizer
  /\ AConsciousnessEntity
  /\ profile \in CaseProfiles
  /\ routine \in Routines
  /\ input = <<"tc_CASE">>
  /\ icode = <<>>
  /\ markers = <<>>
  /\ errors = <<>>
  /\ stack = <<Frame("parse_case_label", "none", 1)>>
  /\ acts = <<[fn |-> "parse_case_label", term |-> "none", parent |-> 0,
               site |-> "root", done |-> FALSE, lo |-> 0, hi |-> 0,
               ilo |-> 1, ihi |-> 0, elo |-> 0, ehi |-> 0]>>

NextCase ==
  \/ parse_case_label
  \/ Next

SpecCase == InitCase /\ [][NextCase]_vars

(* ------------------------------------------------------------------ *)
(* AConsciousnessNetworkVisualizer                                      *)
(* ------------------------------------------------------------------ *)

\* no statement is being parsed
NoParse ==
  /\ profile = [text |-> <<>>, alpha |-> {}, len |-> 0]
  /\ routine = [which |-> "func_declared", p_type |-> "integer"]
  /\ input = <<tc_end_of_file>>
  /\ icode = <<>>
  /\ markers = <<>>
  /\ errors = <<>>
  /\ stack = <<>>
  /\ acts = <<>>

\* how many spline components are created in all
MaxSplines == 2

\* synaptic strength in halves: 0.0, 0.5, 1.0
FullStrength == 2

PathwayIds == {"p1", "P1", "p2"}

StreamIds == {"s1", "s2"}

\* FString::ToLower, on the identifiers in use
ToLower ==
  [id \in PathwayIds \cup StreamIds |-> IF id = "P1" THEN "p1" ELSE id]

\* FString::operator==, which ignores case
SameString(a, b) == ToLower[a] = ToLower[b]

\* FMath::Clamp
Clamp(x, lo, hi) == IF x < lo THEN lo ELSE IF x < hi THEN x ELSE hi

\* the pathway data and stream data a caller passes
PathwayInputs ==
  [PathwayId : PathwayIds, SynapticStrength : {1, FullStrength}, IsActive : BOOLEAN]

StreamInputs == [StreamId : StreamIds, EventsProcessed : {1, 2}]

\* TArray::FindByPredicate on the identifier: the index of the first entry
\* whose identifier equals id, 0 where there is none
FindByPredicate(array, id, field) ==
  LET found == {i \in DOMAIN array : SameString(array[i][field], id)}
  IN IF found = {} THEN 0 ELSE CHOOSE i \in found : \A j \in found : i <= j

UpdateNeuralPathway ==
  \E PathwayData \in PathwayInputs :
    LET ExistingPathway ==
          FindByPredicate(ActivePathways, PathwayData.PathwayId, "PathwayId")
    IN /\ request' = [op |-> "UpdateNeuralPathway", found |-> ExistingPathway]
       /\ IF ExistingPathway # 0
            THEN /\ ActivePathways' =
                      [ActivePathways EXCEPT
                         ![ExistingPathway].SynapticStrength = PathwayData.SynapticStrength,
                         ![ExistingPathway].IsActive = PathwayData.IsActive]
                 /\ UNCHANGED NeuralPathwaySplines
            ELSE /\ NeuralPathwaySplines < MaxSplines
                 /\ ActivePathways' = Append(ActivePathways, PathwayData)
                 /\ NeuralPathwaySplines' = NeuralPathwaySplines + 1
       /\ UNCHANGED <<bIsConnectedToNetwork, ActiveStreams, CurrentMetrics,
                      parser, entity>>

VisualizeSynapticPlasticity ==
  \E PathwayId \in PathwayIds, StrengthChange \in {-1, 1} :
    LET Pathway == FindByPredicate(ActivePathways, PathwayId, "PathwayId")
    IN /\ request' = [op |-> "VisualizeSynapticPlasticity", found |-> Pathway]
       /\ IF Pathway = 0
            THEN UNCHANGED ActivePathways
            ELSE ActivePathways' =
                   [ActivePathways EXCEPT ![Pathway].SynapticStrength =
                      Clamp(@ + StrengthChange, 0, FullStrength)]
       /\ UNCHANGED <<bIsConnectedToNetwork, ActiveStreams, CurrentMetrics,
                      NeuralPathwaySplines, parser, entity>>

\* UpdateConsciousnessStream adding the stream data whether or not its
\* identifier is there
UpdateConsciousnessStream_add ==
  \E StreamData \in StreamInputs :
    /\ Len(ActiveStreams) < Cardinality(StreamIds)
    /\ request' =
         [op |-> "UpdateConsciousnessStream",
          found |-> FindByPredicate(ActiveStreams, StreamData.StreamId, "StreamId")]
    /\ ActiveStreams' = Append(ActiveStreams, StreamData)
    /\ UNCHANGED <<bIsConnectedToNetwork, ActivePathways, CurrentMetrics,
                   NeuralPathwaySplines, parser, entity>>

UpdateConsciousnessStream ==
  \E StreamData \in StreamInputs :
    LET ExistingStream ==
          FindByPredicate(ActiveStreams, StreamData.StreamId, "StreamId")
    IN /\ request' = [op |-> "UpdateConsciousnessStream", found |-> ExistingStream]
       /\ IF ExistingStream # 0
            THEN ActiveStreams' = [ActiveStreams EXCEPT ![ExistingStream] = StreamData]
            ELSE ActiveStreams' = Append(ActiveStreams, StreamData)
       /\ UNCHANGED <<bIsConnectedToNetwork, ActivePathways, CurrentMetrics,
                      NeuralPathwaySplines, parser, entity>>

VisualizeEmergentIntelligence ==
  \E IntelligenceLevel \in {"0.0", "0.9"} :
    /\ request' = [op |-> "VisualizeEmergentIntelligence", found |-> 0]
    /\ CurrentMetrics' =
         [CurrentMetrics EXCEPT !.EmergentIntelligenceLevel = IntelligenceLevel]
    /\ UNCHANGED <<bIsConnectedToNetwork, ActivePathways, ActiveStreams,
                   NeuralPathwaySplines, parser, entity>>

ShowNetworkEffect ==
  \E NodeCount \in {1}, GlobalCoherence \in {"0.5"} :
    /\ request' = [op |-> "ShowNetworkEffect", found |-> 0]
    /\ CurrentMetrics' =
         [CurrentMetrics EXCEPT !.IntelligenceNodes = NodeCount,
                                !.GlobalCoherence = GlobalCoherence]
    /\ UNCHANGED <<bIsConnectedToNetwork, ActivePathways, ActiveStreams,
                   NeuralPathwaySplines, parser, entity>>

\* DisconnectFromConsciousnessNetwork leaving the metrics as they are
Disconnect_keepmetrics ==
  IF ~bIsConnectedToNetwork
    THEN <<bIsConnectedToNetwork, ActivePathways, ActiveStreams, CurrentMetrics>>
    ELSE <<FALSE, <<>>, <<>>, CurrentMetrics>>

\* DisconnectFromConsciousnessNetwork(): the connected flag, the pathways, the
\* streams and the metrics it leaves
Disconnect ==
  IF ~bIsConnectedToNetwork
    THEN <<bIsConnectedToNetwork, ActivePathways, ActiveStreams, CurrentMetrics>>
    ELSE <<FALSE, <<>>, <<>>, FConsciousnessMetrics>>

DisconnectFromConsciousnessNetwork ==
  /\ request' = [op |-> "DisconnectFromConsciousnessNetwork", found |-> 0]
  /\ bIsConnectedToNetwork' = Disconnect[1]
  /\ ActivePathways' = Disconnect[2]
  /\ ActiveStreams' = Disconnect[3]
  /\ CurrentMetrics' = Disconnect[4]
  /\ UNCHANGED <<NeuralPathwaySplines, parser, entity>>

ConnectToConsciousnessNetwork ==
  /\ request' = [op |-> "ConnectToConsciousnessNetwork", found |-> 0]
  /\ IF bIsConnectedToNetwork
       THEN /\ ActivePathways' = Disconnect[2]
            /\ ActiveStreams' = Disconnect[3]
            /\ CurrentMetrics' = Disconnect[4]
       ELSE UNCHANGED <<ActivePathways, ActiveStreams, CurrentMetrics>>
  /\ bIsConnectedToNetwork' = TRUE
  /\ UNCHANGED <<NeuralPathwaySplines, parser, entity>>

EndPlay ==
  /\ request' = [op |-> "EndPlay", found |-> 0]
  /\ bIsConnectedToNetwork' = Disconnect[1]
  /\ ActivePathways' = Disconnect[2]
  /\ ActiveStreams' = Disconnect[3]
  /\ CurrentMetrics' = Disconnect[4]
  /\ UNCHANGED <<NeuralPathwaySplines, parser, entity>>

InitVisualizer ==
  /\ NoParse
  /\ AConsciousnessNetworkVisualizer
  /\ AConsciousnessEntity

NextVisualizer ==
  \/ UpdateNeuralPathway
  \/ VisualizeSynapticPlasticity
  \/ UpdateConsciousnessStream
  \/ VisualizeEmergentIntelligence
  \/ ShowNetworkEffect
  \/ ConnectToConsciousnessNetwork
  \/ DisconnectFromConsciousnessNetwork
  \/ EndPlay

SpecVisualizer == InitVisualizer /\ [][NextVisualizer]_vars

(* ------------------------------------------------------------------ *)
(* AConsciousnessEntity                                                 *)
(* ------------------------------------------------------------------ *)

\* the float values in use; NaN is the IEEE not-a-number
NaN == "NaN"

\* the values a caller passes for Awareness, and for the other three fields
AwarenessValues == {"0.5", "1.0", NaN}

FieldValues == {"0.5", "1.0"}

\* the data a caller passes to UpdateConsciousnessData
DataInputs ==
  [Awareness : AwarenessValues, Emotion : FieldValues, Energy : FieldValues,
   ConsciousnessLevel : FieldValues]

\* the values a caller passes to a setter
SetterValues == {"0.5", "2.0"}

\* operator != of float: a NaN differs from every value, itself included
Differs(a, b) == a = NaN \/ b = NaN \/ a # b

\* FMath::Clamp(x, 0.0f, 1.0f), on the setter values
Clamp01(x) == IF x = "2.0" THEN "1.0" ELSE x

\* the event fired when the field has changed
Changed(field, event) ==
  IF Differs(Previous[field], ConsciousnessData[field]) THEN <<event>> ELSE <<>>

\* bHasChanged at line 82
bHasChanged ==
  \E field \in DOMAIN ConsciousnessData :
    Differs(Previous[field], ConsciousnessData[field])

Tick ==
  /\ fired' =
       Changed("Awareness", "OnAwarenessChanged")
       \o Changed("Emotion", "OnEmotionChanged")
       \o Changed("Energy", "OnEnergyChanged")
       \o (IF bHasChanged THEN <<"UpdateVisualization", "OnConsciousnessChanged">>
                          ELSE <<>>)
  /\ Previous' =
       [field \in DOMAIN Previous |->
          IF Differs(Previous[field], ConsciousnessData[field])
            THEN ConsciousnessData[field]
            ELSE Previous[field]]
  /\ called' = "Tick"
  /\ UNCHANGED <<ConsciousnessData, VisualizationData, parser, visualizer>>

\* Awareness * 10.0f
AuraRadius(Awareness) ==
  CASE Awareness = "0.5" -> "5.0"
    [] Awareness = "1.0" -> "10.0"
    [] Awareness = NaN -> NaN

\* FMath::RoundToInt(Energy * 100.0f)
ParticleCount(Energy) == IF Energy = "0.5" THEN 50 ELSE 100

\* Emotion * 2.0f
AnimationSpeed(Emotion) == IF Emotion = "0.5" THEN "1.0" ELSE "2.0"

\* FLinearColor::MakeFromHSV8(Emotion * 360.0f, 255, 255): the hue is passed as
\* a uint8, and 360.0f is not a uint8: the conversion wraps or saturates
AuraColors(Emotion) ==
  IF Emotion = "0.5" THEN {"HSV8(180)"} ELSE {"HSV8(104)", "HSV8(255)"}

UpdateConsciousnessData ==
  \E NewData \in DataInputs :
    \E AuraColor \in AuraColors(NewData.Emotion) :
      /\ ConsciousnessData' = NewData
      /\ VisualizationData' =
           [AuraRadius |-> AuraRadius(NewData.Awareness),
            AuraIntensity |-> NewData.Energy,
            ParticleCount |-> ParticleCount(NewData.Energy),
            AnimationSpeed |-> AnimationSpeed(NewData.Emotion),
            AuraColor |-> AuraColor]
      /\ called' = "UpdateConsciousnessData"
      /\ UNCHANGED <<Previous, fired, parser, visualizer>>

SetAwareness ==
  \E NewAwareness \in SetterValues :
    /\ ConsciousnessData' =
         [ConsciousnessData EXCEPT !.Awareness = Clamp01(NewAwareness)]
    /\ called' = "SetAwareness"
    /\ UNCHANGED <<Previous, VisualizationData, fired, parser, visualizer>>

SetEmotion ==
  \E NewEmotion \in SetterValues :
    /\ ConsciousnessData' =
         [ConsciousnessData EXCEPT !.Emotion = Clamp01(NewEmotion)]
    /\ called' = "SetEmotion"
    /\ UNCHANGED <<Previous, VisualizationData, fired, parser, visualizer>>

SetEnergy ==
  \E NewEnergy \in SetterValues :
    /\ ConsciousnessData' =
         [ConsciousnessData EXCEPT !.Energy = Clamp01(NewEnergy)]
    /\ called' = "SetEnergy"
    /\ UNCHANGED <<Previous, VisualizationData, fired, parser, visualizer>>

SetConsciousnessLevel ==
  \E NewLevel \in SetterValues :
    /\ ConsciousnessData' =
         [ConsciousnessData EXCEPT !.ConsciousnessLevel = Clamp01(NewLevel)]
    /\ called' = "SetConsciousnessLevel"
    /\ UNCHANGED <<Previous, VisualizationData, fired, parser, visualizer>>

InitEntity ==
  /\ NoParse
  /\ AConsciousnessNetworkVisualizer
  /\ AConsciousnessEntity

NextEntity ==
  \/ Tick
  \/ UpdateConsciousnessData
  \/ SetAwareness
  \/ SetEmotion
  \/ SetEnergy
  \/ SetConsciousnessLevel

SpecEntity == InitEntity /\ [][NextEntity]_vars

(* ------------------------------------------------------------------ *)
(* Reading the history                                                  *)
(* ------------------------------------------------------------------ *)

Activations == DOMAIN acts

Done(a) == acts[a].done

\* the activations a started from its line site
Children(a, site) ==
  {c \in Activations : acts[c].parent = a /\ acts[c].site = site}

\* the markers a reserved, and the markers a fixed up
Owned(a) == {m \in DOMAIN markers : markers[m].owner = a}

FixedBy(a) ==
  {m \in DOMAIN markers :
     \E i \in DOMAIN markers[m].fixedBy : markers[m].fixedBy[i] = a}

\* how often a reported the error code
OwnErrors(a, code) ==
  Cardinality({i \in DOMAIN errors : errors[i] = <<code, a>>})

MarkerHandlers == {"parse_DO", "parse_WHILE", "parse_IF", "parse_FOR"}

\* an if whose else branch was parsed
HasElse(a) == Children(a, "L173") # {}

\* the number of markers a statement form reserves
Reserves(a) ==
  CASE acts[a].fn = "parse_DO" -> 1
    [] acts[a].fn = "parse_WHILE" -> 1
    [] acts[a].fn = "parse_IF" -> IF HasElse(a) THEN 2 ELSE 1
    [] acts[a].fn = "parse_FOR" -> 4
    [] OTHER -> 0

(* ------------------------------------------------------------------ *)
(* Claims                                                               *)
(* ------------------------------------------------------------------ *)

\* C1: marker balance.  A handler that has returned reserved exactly the
\* markers of its statement form (do 1, while 1, if 1 or 2, for 4) and fixed
\* up exactly those, each once; only these handlers reserve or fix markers,
\* and no marker is ever fixed up twice, whatever the token stream.
C1_MarkerBalance ==
  /\ \A m \in DOMAIN markers :
       /\ Len(markers[m].fixedBy) <= 1
       /\ acts[markers[m].owner].fn \in MarkerHandlers
  /\ \A a \in Activations :
       Done(a) =>
         /\ Cardinality(Owned(a)) = Reserves(a)
         /\ FixedBy(a) = Owned(a)

\* a for statement of an error-free input has returned with its four markers fixed
C1_Witness ==
  \E a \in Activations :
    /\ acts[a].fn = "parse_FOR" /\ Done(a) /\ errors = <<>>
    /\ Cardinality(FixedBy(a)) = 4

\* C2: marker scoping under nesting.  A marker is fixed up by the activation
\* that reserved it and by no other; a marker not yet fixed up belongs to an
\* activation that has not returned; so when a parse_statement returns, at any
\* depth, every marker reserved during it has been fixed up.
C2_MarkerScope ==
  /\ \A m \in DOMAIN markers :
       /\ \A i \in DOMAIN markers[m].fixedBy :
            markers[m].fixedBy[i] = markers[m].owner
       /\ markers[m].fixedBy = <<>> => ~Done(markers[m].owner)
  /\ \A a \in Activations :
       (acts[a].fn = "parse_statement" /\ Done(a)) =>
         \A m \in DOMAIN markers :
           (acts[a].lo < m /\ m <= acts[a].hi) => Len(markers[m].fixedBy) = 1

\* a nested parse_statement has returned, and a statement nested in it had
\* reserved a marker
C2_Witness ==
  \E a \in Activations :
    /\ acts[a].fn = "parse_statement" /\ Done(a) /\ acts[a].parent # 0
    /\ \E m \in DOMAIN markers :
         /\ acts[a].lo < m /\ m <= acts[a].hi
         /\ acts[markers[m].owner].parent # a

IsToken(u) == u \in Tokens

\* the units an activation appended to the stream, and the tokens it consumed
Emitted(a) == SubSeq(icode, acts[a].lo + 1, acts[a].hi)

Consumed(a) == SubSeq(input, acts[a].ilo, acts[a].ihi - 1)

\* the call sites of parse_FOR: init clause, condition, increment, body
ForSites == <<"L198", "L205", "L213", "L220">>

\* C3: for-loop emission order.  In the stream of a for statement that has
\* returned, the init clause's code precedes the condition's, the condition's
\* precedes the increment's, and the increment's precedes the body's; there is
\* one body, its code ends the statement's code, and each of the three clause
\* segments holds exactly the tokens its parse consumed.
C3_ForOrder ==
  \A f \in Activations :
    (acts[f].fn = "parse_FOR" /\ Done(f)) =>
      /\ \A i \in 1..4 : \A c \in Children(f, ForSites[i]) :
           /\ Done(c)
           /\ Cardinality(Children(f, ForSites[i])) = 1
           /\ acts[f].lo + 4 < acts[c].lo /\ acts[c].hi <= acts[f].hi
           /\ i < 4 => Emitted(c) = Consumed(c)
           /\ \A j \in 1..4 : \A d \in Children(f, ForSites[j]) :
                i < j => acts[c].hi <= acts[d].lo
      /\ \E s \in Children(f, "L220") : acts[s].hi = acts[f].hi

\* for (I; E; X) S was parsed without error, each of I, E, X and S left code
C3_Witness ==
  \E f \in Activations :
    /\ acts[f].fn = "parse_FOR" /\ Done(f) /\ errors = <<>>
    /\ \A i \in 1..4 : \E c \in Children(f, ForSites[i]) :
         acts[c].ihi > acts[c].ilo

\* the two markers of an if with an else branch, and its two statements
FalseMarker(a) == acts[a].lo + 1

FollowMarker(a) == CHOOSE m \in Owned(a) : m # FalseMarker(a)

ThenStatement(a) == CHOOSE c \in Children(a, "L162") : TRUE

ElseStatement(a) == CHOOSE c \in Children(a, "L173") : TRUE

IfElseDone(a) == acts[a].fn = "parse_IF" /\ Done(a) /\ HasElse(a)

\* the stream holds nothing but separators at the positions from..to
OnlySeparators(from, to) == \A k \in from..to : icode[k] = "tc_semicolon"

\* C4 as claimed: the false-branch marker of if (E) S1 else S2 resolves to the
\* first position of S2's emitted code.
C4_Original ==
  \A a \in Activations :
    IfElseDone(a) =>
      markers[FalseMarker(a)].val = <<acts[ElseStatement(a)].lo + 1>>

\* C4 as amended: the false-branch marker of if (E) S1 else S2 resolves to the
\* position right after S1's code and the stray separators, which is the slot
\* of the skip-else placeholder; the else token follows it, and S2's code
\* starts two positions after the resolved position.
C4_FalseTarget ==
  \A a \in Activations :
    IfElseDone(a) =>
      /\ icode[FalseMarker(a)] = mc_location_marker
      /\ markers[FalseMarker(a)].val = <<FollowMarker(a)>>
      /\ icode[FollowMarker(a)] = mc_location_marker
      /\ icode[FollowMarker(a) + 1] = "tc_ELSE"
      /\ acts[ElseStatement(a)].lo + 1 = FollowMarker(a) + 2
      /\ acts[ThenStatement(a)].hi < FollowMarker(a)
      /\ OnlySeparators(acts[ThenStatement(a)].hi + 1, FollowMarker(a) - 1)

\* if (E) S1; else S2 was parsed without error, a separator follows S1
C4_Witness ==
  \E a \in Activations :
    /\ IfElseDone(a) /\ errors = <<>>
    /\ acts[ThenStatement(a)].hi + 1 < FollowMarker(a)
    /\ acts[ElseStatement(a)].ihi > acts[ElseStatement(a)].ilo

\* C5 as claimed: the skip-else marker of if (E) S1 else S2 resolves to the
\* position immediately after S2's emitted code.
C5_Original ==
  \A a \in Activations :
    IfElseDone(a) =>
      markers[FollowMarker(a)].val = <<acts[ElseStatement(a)].hi + 1>>

\* C5 as amended: the skip-else marker of if (E) S1 else S2 resolves to the
\* position right after S2's code and the stray separators consumed after S2,
\* which is where parse_IF returns; and the marker is fixed up only after S2
\* has been parsed.
C5_SkipElseTarget ==
  /\ \A a \in Activations :
       IfElseDone(a) =>
         /\ markers[FollowMarker(a)].val = <<acts[a].hi + 1>>
         /\ acts[ElseStatement(a)].hi <= acts[a].hi
         /\ OnlySeparators(acts[ElseStatement(a)].hi + 1, acts[a].hi)
  /\ \A a \in Activations : \A m \in Owned(a) :
       (acts[a].fn = "parse_IF" /\ m # FalseMarker(a)
          /\ markers[m].fixedBy # <<>>) =>
         \E s \in Children(a, "L173") : Done(s)

\* if (E) S1 else S2; was parsed, a separator consumed after S2
C5_Witness ==
  \E a \in Activations :
    /\ IfElseDone(a)
    /\ acts[ElseStatement(a)].ihi > acts[ElseStatement(a)].ilo
    /\ acts[ElseStatement(a)].hi < acts[a].hi

\* an activation's own reports, of any code
OwnReports(a) == Cardinality({i \in DOMAIN errors : errors[i][2] = a})

\* errors are only ever added to the sink
ErrorsKept == Len(errors') >= Len(errors) /\ SubSeq(errors', 1, Len(errors)) = errors

\* the type check of a condition: handler, label of the check, label after it
CondChecks ==
  {<<"parse_DO", "L107b", "L109">>, <<"parse_WHILE", "L128b", "L130">>,
   <<"parse_IF", "L158b", "L160">>, <<"parse_FOR", "L208b", "L209">>}

\* where a handler calls for its condition and for its body
CondSite(a) ==
  CASE acts[a].fn = "parse_DO" -> "L107"
    [] acts[a].fn = "parse_WHILE" -> "L128"
    [] acts[a].fn = "parse_IF" -> "L158"
    [] acts[a].fn = "parse_FOR" -> "L205"

BodySite(a) ==
  CASE acts[a].fn = "parse_DO" -> "L102"
    [] acts[a].fn = "parse_WHILE" -> "L132"
    [] acts[a].fn = "parse_IF" -> "L162"
    [] acts[a].fn = "parse_FOR" -> "L220"

\* the step that checks a condition's type reports incompatible types once if
\* the type is not boolean and nothing if it is, and in both cases leaves the
\* cursor, the stream and the markers alone and goes on to the next line
C6_Check ==
  /\ ErrorsKept
  /\ \A c \in CondChecks :
       At(c[1], c[2]) =>
         /\ errors' = IF Top.val = "boolean" THEN errors
                      ELSE Append(errors, <<err_incompatible_types, Top.id>>)
         /\ Len(stack') = Len(stack)
         /\ stack'[Len(stack)].id = Top.id /\ stack'[Len(stack)].pc = c[3]
         /\ UNCHANGED <<input, icode, markers>>

\* a condition's type is checked as soon as the condition is parsed (the only
\* other value a handler receives is the for increment's, dropped at once), and a
\* handler that has returned parsed one condition at most, reported
\* incompatible types at most once, parsed its body and fixed up its markers
C6_Completed ==
  /\ \A i \in DOMAIN stack :
       (stack[i].fn \in MarkerHandlers /\ stack[i].val # "none") =>
         /\ i = Len(stack)
         /\ \/ \E c \in CondChecks : stack[i].fn = c[1] /\ stack[i].pc = c[2]
            \/ stack[i].fn = "parse_FOR" /\ stack[i].pc = "L215b"
  /\ \A a \in Activations :
       (acts[a].fn \in MarkerHandlers /\ Done(a)) =>
         /\ Cardinality(Children(a, CondSite(a))) <= 1
         /\ acts[a].fn # "parse_FOR" => Children(a, CondSite(a)) # {}
         /\ OwnErrors(a, err_incompatible_types)
              <= Cardinality(Children(a, CondSite(a)))
         /\ \E b \in Children(a, BodySite(a)) : Done(b)
         /\ Owned(a) # {} /\ FixedBy(a) = Owned(a)

\* C6: non-boolean condition.  In while, do-while, if and for, a condition
\* whose type is not boolean yields exactly one incompatible-types error, and
\* the handler goes on as it does for a boolean condition: it requires the
\* closing token, parses the body, fixes up its markers and returns.
C6_NonBoolean == [][C6_Check]_vars /\ []C6_Completed

\* while (1 + 1) { } was parsed: one incompatible-types error and no other
C6_Witness ==
  \E a \in Activations :
    /\ acts[a].fn = "parse_WHILE" /\ Done(a)
    /\ errors = << <<err_incompatible_types, a>> >>
    /\ \E c \in Children(a, "L128") : Len(Consumed(c)) = 3

\* the step of parse_RETURN that checks the expression against the routine's
\* return type reports incompatible types once if they are not assignment
\* compatible and nothing if they are
C7_Check ==
  At("parse_RETURN", "L331b") =>
    /\ errors' = IF AssignmentCompatible(routine.p_type, Top.val) THEN errors
                 ELSE Append(errors, <<err_incompatible_types, Top.id>>)
    /\ Len(stack') = Len(stack)
    /\ stack'[Len(stack)].id = Top.id /\ stack'[Len(stack)].pc = "L333"
    /\ UNCHANGED <<input, icode, markers>>

\* a return statement's value is checked as soon as it is parsed; a
\* parse_RETURN that has returned consumed return, parsed one expression,
\* recorded what it consumed, made at most one report and reserved no marker
C7_Completed ==
  /\ \A i \in DOMAIN stack :
       (stack[i].fn = "parse_RETURN" /\ stack[i].val # "none") =>
         i = Len(stack) /\ stack[i].pc = "L331b"
  /\ \A r \in Activations :
       (acts[r].fn = "parse_RETURN" /\ Done(r)) =>
         /\ input[acts[r].ilo] = "tc_RETURN"
         /\ Emitted(r) = Consumed(r)
         /\ Cardinality(Children(r, "L331")) = 1
         /\ \A c \in Children(r, "L331") :
              acts[c].fn = "parse_expression" /\ Done(c)
         /\ acts[r].ehi - acts[r].elo = OwnErrors(r, err_incompatible_types)
         /\ OwnErrors(r, err_incompatible_types) <= 1
         /\ Owned(r) = {} /\ FixedBy(r) = {}

\* C7: return mismatch.  parse_RETURN consumes return, parses one expression,
\* reports exactly one incompatible-types error when the expression's type is
\* not assignment compatible with the routine's return type and none when it
\* is, returns normally and reserves no marker.
C7_ReturnMismatch == [][C7_Check /\ ErrorsKept]_vars /\ []C7_Completed

\* return a was parsed and the mismatch reported, the only error
C7_Witness ==
  \E r \in Activations :
    /\ acts[r].fn = "parse_RETURN" /\ Done(r)
    /\ errors = << <<err_incompatible_types, r>> >>
    /\ Len(Consumed(r)) = 2

\* the statement list of a compound block
BlockList(c) == CHOOSE l \in Children(c, "L311") : TRUE

\* a compound block that has returned, its statement list stopped by the end
\* of the input
OpenBlock(c) ==
  /\ acts[c].fn = "parse_compound" /\ Done(c)
  /\ input[acts[BlockList(c)].ihi] = tc_end_of_file

\* C8: standard-iterator block.  When the statement list of a compound block
\* stops at the end of the input, parse_compound returns without a report in a
\* standard-iterator routine and with exactly one report, the missing closing
\* delimiter, in any other routine.
C8_IteratorBlock ==
  \A c \in Activations :
    OpenBlock(c) =>
      /\ input[acts[c].ihi] = tc_end_of_file
      /\ OwnReports(c) = OwnErrors(c, "err_missing_right_bracket")
      /\ OwnReports(c) = IF routine.which = "func_std_iterator" THEN 0 ELSE 1

\* { a with no closing delimiter was parsed in a standard-iterator routine,
\* without any report
C8_Witness ==
  \E c \in Activations :
    /\ OpenBlock(c) /\ routine.which = "func_std_iterator"
    /\ errors = <<>> /\ Len(Consumed(c)) > 1

\* C9 as claimed: an iteration of parse_statement_list that is followed by
\* another has advanced the cursor by at least one token.
C9_Progress ==
  At("parse_statement_list", "L68") =>
    ((token # Top.term /\ token # tc_end_of_file) => Len(input) > Top.iter)

\* the dispatcher calls of a statement list
Dispatched(l) == Children(l, "L66")

\* C10: the statement-list driver never loops past the end of the input.  A
\* dispatcher call that is not the list's first starts on a token that is
\* neither the terminator nor end of input, and a list that has returned
\* stopped on the terminator or on end of input.
C10_NoLoopPastEnd ==
  \A l \in Activations :
    acts[l].fn = "parse_statement_list" =>
      /\ \A c \in Dispatched(l) :
           (\E b \in Dispatched(l) : b < c) =>
             input[acts[c].ilo] \notin {acts[l].term, tc_end_of_file}
      /\ Done(l) => input[acts[l].ihi] \in {acts[l].term, tc_end_of_file}

\* a list of two statements has returned at the end of an input in which its
\* terminator never appeared
C10_Witness ==
  \E l \in Activations :
    /\ acts[l].fn = "parse_statement_list" /\ Done(l)
    /\ Cardinality(Dispatched(l)) >= 2
    /\ input[acts[l].ihi] = tc_end_of_file
    /\ \A i \in DOMAIN input : i > acts[l].ilo => input[i] # acts[l].term

\* the tokens a statement list went over are simple statements, each a run of
\* expression tokens led by an identifier, with one or more separators between
\* neighbours, and the list stopped on its terminator
SimpleList(l) ==
  /\ acts[l].fn = "parse_statement_list" /\ Done(l)
  /\ acts[l].ihi > acts[l].ilo
  /\ input[acts[l].ihi] = acts[l].term
  /\ \A i \in acts[l].ilo .. acts[l].ihi - 1 :
       /\ input[i] \in ExprTokens \cup {"tc_semicolon"}
       /\ (i = acts[l].ilo \/ input[i - 1] = "tc_semicolon") =>
            input[i] \in {"tc_identifier", "tc_semicolon"}
  /\ input[acts[l].ilo] = "tc_identifier"

\* the number of statements among those tokens
Statements(l) ==
  Cardinality({i \in acts[l].ilo .. acts[l].ihi - 1 :
                 /\ input[i] # "tc_semicolon"
                 /\ (i = acts[l].ilo \/ input[i - 1] = "tc_semicolon")})

\* the separators between the first and the last statement of the list
Separators(l) ==
  Cardinality({i \in acts[l].ilo .. acts[l].ihi - 1 :
                 /\ input[i] = "tc_semicolon"
                 /\ \E j \in i + 1 .. acts[l].ihi - 1 : input[j] # "tc_semicolon"})

\* C11: separator tolerance.  No dispatcher call after a list's first starts
\* on a separator, and a list of k simple statements, neighbours separated by
\* any number of separators, makes exactly k dispatcher calls before it
\* reaches its terminator.
C11_SeparatorTolerance ==
  \A l \in Activations :
    acts[l].fn = "parse_statement_list" =>
      /\ \A c \in Dispatched(l) :
           (\E b \in Dispatched(l) : b < c) =>
             input[acts[c].ilo] # "tc_semicolon"
      /\ SimpleList(l) => Cardinality(Dispatched(l)) = Statements(l)

\* a ; ; ; b was parsed as two statements
C11_Witness ==
  \E l \in Activations :
    /\ SimpleList(l) /\ Statements(l) = 2 /\ Separators(l) = 3
    /\ Cardinality(Dispatched(l)) = 2

\* the token a parse_statement activation started on
Lead(s) == input[acts[s].ilo]

\* the calls of a parse_statement activation other than the recovery call
HandlerCalls(s) ==
  {c \in Activations : acts[c].parent = s /\ acts[c].fn # "resync"}

\* the recovery calls of a parse_statement activation
ResyncCalls(s) ==
  {c \in Activations : acts[c].parent = s /\ acts[c].fn = "resync"}

\* the handler each kind of leading token stands for, "none" where none runs
Selected(t) ==
  CASE t = "tc_identifier" -> "parse_declarations_or_assignment"
    [] t = "tc_CONST" -> "parse_constant_declaration"
    [] t = "tc_DO" -> "parse_DO"
    [] t = "tc_WHILE" -> "parse_WHILE"
    [] t = "tc_IF" -> "parse_IF"
    [] t = "tc_FOR" -> "parse_FOR"
    [] t = "tc_SWITCH" -> "parse_SWITCH"
    [] t = "tc_left_bracket" -> "parse_compound"
    [] t = "tc_RETURN" -> "parse_RETURN"
    [] t = "tc_pound" -> "parse_execute_directive"
    [] OTHER -> "none"

\* the tokens parse_statement itself consumes for a leading token, and those
\* of them it records
Skipped(t) == IF t \in {"tc_CONST", "tc_BREAK", "tc_pound"} THEN 1 ELSE 0

Recorded(t) == IF t \in {"tc_CONST", "tc_BREAK"} THEN <<t>> ELSE <<>>

\* C12: dispatch.  A parse_statement activation calls one handler at most, the
\* one its leading token stands for, after consuming the leading token itself
\* for const and # and no token otherwise; break is consumed and recorded with
\* no handler; for any other leading token no handler runs and recovery starts
\* on the leading token.
C12_Dispatch ==
  \A s \in Activations :
    acts[s].fn = "parse_statement" =>
      /\ Cardinality(HandlerCalls(s)) <= 1
      /\ \A c \in HandlerCalls(s) :
           /\ acts[c].fn = Selected(Lead(s))
           /\ acts[c].ilo = acts[s].ilo + Skipped(Lead(s))
           /\ SubSeq(icode, acts[s].lo + 1, acts[c].lo)
                = <<mc_line_marker>> \o Recorded(Lead(s))
      /\ \A r \in ResyncCalls(s) :
           /\ (Selected(Lead(s)) # "none") = (HandlerCalls(s) # {})
           /\ \A c \in HandlerCalls(s) : Done(c) /\ c < r
           /\ HandlerCalls(s) = {} =>
                /\ acts[r].ilo = acts[s].ilo + Skipped(Lead(s))
                /\ SubSeq(icode, acts[s].lo + 1, acts[r].lo)
                     = <<mc_line_marker>> \o Recorded(Lead(s))
      /\ Done(s) =>
           /\ (Selected(Lead(s)) # "none") = (HandlerCalls(s) # {})
           /\ Cardinality(ResyncCalls(s)) <= 1

\* a statement led by const and a statement led by a token that starts no
\* statement have both been dispatched
C12_Witness ==
  \E s, u \in Activations :
    /\ acts[s].fn = "parse_statement" /\ Done(s) /\ Lead(s) = "tc_CONST"
    /\ \E c \in HandlerCalls(s) : Done(c)
    /\ acts[u].fn = "parse_statement" /\ Done(u)
    /\ Lead(u) = "tc_right_paren" /\ HandlerCalls(u) = {}

\* the tokens on which a statement may stop
Boundary == tokenlist_statement_follow \cup tokenlist_statement_start

\* the step of parse_statement after the handler: recovery is called if the
\* current token is not end of input, and the activation returns if it is
C13_Step ==
  At("parse_statement", "L52") =>
    IF token # tc_end_of_file
      THEN /\ Len(stack') = Len(stack) + 1
           /\ stack'[Len(stack')].fn = "resync"
           /\ stack'[Len(stack)].pc = "L55"
      ELSE /\ Len(stack') = Len(stack) - 1
           /\ acts'[Top.id].done

\* recovery is not called on end of input, a parse_statement that returned
\* without calling it stopped on end of input, and a parse_statement that
\* returned stopped on end of input or on a follow or start token
C13_Returned ==
  \A s \in Activations :
    acts[s].fn = "parse_statement" =>
      /\ \A r \in ResyncCalls(s) :
           acts[r].site = "L52" /\ input[acts[r].ilo] # tc_end_of_file
      /\ Done(s) =>
           /\ ResyncCalls(s) = {} => input[acts[s].ihi] = tc_end_of_file
           /\ \A r \in ResyncCalls(s) : Done(r) /\ acts[r].ihi = acts[s].ihi
           /\ input[acts[s].ihi] \in Boundary \cup {tc_end_of_file}

\* C13: post-statement recovery.  After the handler returns, parse_statement
\* calls resync if and only if the current token is not end of input, and
\* whenever parse_statement returns the current token is end of input or a
\* statement-follow or statement-start token.
C13_Recovery == [][C13_Step]_vars /\ []C13_Returned

\* a statement returned on a token that is not end of input after its recovery
\* discarded a token
C13_Witness ==
  \E s \in Activations :
    /\ acts[s].fn = "parse_statement" /\ Done(s)
    /\ input[acts[s].ihi] # tc_end_of_file
    /\ \E r \in ResyncCalls(s) : acts[r].ihi > acts[r].ilo

\* C14: resync discards only invalid input.  A recovery that starts on a
\* statement-follow token discards nothing; every token a recovery discards is
\* neither a follow nor a start token nor end of input, none of them is
\* recorded, and a recovery that has returned stopped on the first follow or
\* start token or on end of input.
C14_DiscardsOnlyInvalid ==
  \A r \in Activations :
    acts[r].fn = "resync" =>
      LET last == IF Done(r) THEN acts[r].ihi ELSE Len(input) IN
        /\ \A i \in acts[r].ilo .. last - 1 :
             input[i] \notin Boundary \cup {tc_end_of_file}
        /\ input[acts[r].ilo] \in tokenlist_statement_follow =>
             last = acts[r].ilo
        /\ Done(r) =>
             /\ input[acts[r].ihi] \in Boundary \cup {tc_end_of_file}
             /\ acts[r].hi = acts[r].lo

\* a recovery discarded `)` and stopped on the `}` that follows
C14_Witness ==
  \E r \in Activations :
    /\ acts[r].fn = "resync" /\ Done(r)
    /\ acts[r].ihi = acts[r].ilo + 1
    /\ input[acts[r].ilo] = "tc_right_paren"
    /\ input[acts[r].ihi] = "tc_right_bracket"

\* a step that reports an error adds one report, by the running activation,
\* leaves the cursor, the stream, the markers and the activations alone, and
\* leaves the reporting activation running at its next step
C15_Report ==
  (errors' # errors) =>
    /\ Len(errors') = Len(errors) + 1
    /\ errors'[Len(errors')][2] = Top.id
    /\ UNCHANGED <<input, icode, markers, acts>>
    /\ Len(stack') = Len(stack)
    /\ stack'[Len(stack)].id = Top.id
    /\ stack'[Len(stack)].fn = Top.fn
    /\ stack'[Len(stack)].pc # Top.pc

\* the statement list is in its loop without having moved the cursor
Stalled ==
  /\ At("parse_statement_list", "L68")
  /\ token # Top.term /\ token # tc_end_of_file
  /\ Len(input) = Top.iter

\* however many reports were made, the pass can go on unless a statement list
\* repeats without moving the cursor, and when the pass has ended every
\* activation has returned to its caller
C15_GoesOn ==
  /\ (Running /\ ~Stalled) => ENABLED Next
  /\ ~Running => \A a \in Activations : Done(a)

\* C15: no abort path.  Reporting a syntax or semantic error never stops the
\* pass: the report changes neither the cursor nor the stream, the reporting
\* handler goes on with its next step, reports accumulate, and a pass can end
\* with several reports and with every handler returned to its caller.
C15_NoAbort == [][C15_Report /\ ErrorsKept]_vars /\ []C15_GoesOn

\* while { } has been parsed to the end with three reports: the missing `(`,
\* the type of the condition and the missing `)`
C15_Witness ==
  /\ ~Running
  /\ Len(errors) = 3
  /\ errors[1][1] = "err_missing_left_paren"
  /\ errors[2][1] = err_incompatible_types
  /\ errors[3][1] = "err_missing_right_paren"
  /\ \A i \in DOMAIN errors : acts[errors[i][2]].fn = "parse_WHILE"

\* the steps that require a token: handler, line, token, error
Requires ==
  {<<"parse_DO", "L104", "tc_WHILE", "err_missing_WHILE">>,
   <<"parse_DO", "L105", "tc_left_paren", "err_missing_left_paren">>,
   <<"parse_DO", "L109", "tc_right_paren", "err_missing_right_paren">>,
   <<"parse_WHILE", "L126", "tc_left_paren", "err_missing_left_paren">>,
   <<"parse_WHILE", "L130", "tc_right_paren", "err_missing_right_paren">>,
   <<"parse_IF", "L156", "tc_left_paren", "err_missing_left_paren">>,
   <<"parse_IF", "L160", "tc_right_paren", "err_missing_right_paren">>,
   <<"parse_FOR", "L196", "tc_left_paren", "err_missing_left_paren">>,
   <<"parse_FOR", "L201", "tc_semicolon", "err_missing_semicolon">>,
   <<"parse_FOR", "L209", "tc_semicolon", "err_missing_semicolon">>,
   <<"parse_FOR", "L218", "tc_right_paren", "err_missing_right_paren">>,
   <<"parse_SWITCH", "L240", "tc_left_paren", "err_missing_left_paren">>,
   <<"parse_SWITCH", "L244", "tc_right_paren", "err_missing_right_paren">>,
   <<"parse_compound", "L316", "tc_right_bracket", "err_missing_right_bracket">>}

Calls(a) == {c \in Activations : acts[c].parent = a}

\* the step of parse_SWITCH that tests the selector's type reports
\* incompatible types once if the type is none of integer, character and
\* enumeration and nothing if it is one of them, and goes on to the statement
C17_Check ==
  At("parse_SWITCH", "L246") =>
    /\ errors' = IF Top.val \in {"integer", "char", "enum"} THEN errors
                 ELSE Append(errors, <<err_incompatible_types, Top.id>>)
    /\ Len(stack') = Len(stack)
    /\ stack'[Len(stack)].id = Top.id /\ stack'[Len(stack)].pc = "L252"
    /\ UNCHANGED <<input, icode, markers, acts>>

\* a parse_SWITCH that has returned parsed one selector expression and one
\* statement and called nothing else, reported incompatible types once at
\* most, and neither reserved nor fixed up a marker
C17_Completed ==
  \A s \in Activations :
    acts[s].fn = "parse_SWITCH" =>
      /\ Owned(s) = {} /\ FixedBy(s) = {}
      /\ Done(s) =>
           /\ Cardinality(Children(s, "L242")) = 1
           /\ Cardinality(Children(s, "L252")) = 1
           /\ Calls(s) = Children(s, "L242") \cup Children(s, "L252")
           /\ \A c \in Children(s, "L242") : acts[c].fn = "parse_expression"
           /\ \A c \in Children(s, "L252") :
                acts[c].fn = "parse_statement" /\ Done(c)
           /\ OwnErrors(s, err_incompatible_types) <= 1

\* C17: switch selector check.  parse_SWITCH reports incompatible types
\* exactly when the selector's type is none of integer, character and
\* enumeration; either way it then parses exactly one statement, and it
\* reserves no marker and makes no call beyond the selector and the statement.
C17_SwitchSelector == [][C17_Check]_vars /\ []C17_Completed

\* switch (a) { break; } was parsed with a selector of a wrong type: one
\* report, and the statement parsed all the same
C17_Witness ==
  \E s \in Activations :
    /\ acts[s].fn = "parse_SWITCH" /\ Done(s)
    /\ errors = << <<err_incompatible_types, s>> >>
    /\ \E c \in Children(s, "L252") : Len(Consumed(c)) = 4

\* the keyword of a statement form and the markers it reserves up front
Keyword(fn) ==
  CASE fn = "parse_DO" -> "tc_DO"
    [] fn = "parse_WHILE" -> "tc_WHILE"
    [] fn = "parse_IF" -> "tc_IF"
    [] fn = "parse_FOR" -> "tc_FOR"

UpFront(fn) == IF fn = "parse_FOR" THEN 4 ELSE 1

\* the lines on which markers are reserved up front
UpFrontLines ==
  {<<"parse_DO", "L99">>, <<"parse_WHILE", "L123">>, <<"parse_IF", "L153">>,
   <<"parse_FOR", "L189">>, <<"parse_FOR", "L190">>, <<"parse_FOR", "L191">>,
   <<"parse_FOR", "L192">>}

\* C18: reserve before keyword.  A handler reserves its up-front markers (do
\* 1, while 1, if 1, for 4 in the order exit, body start, condition start,
\* increment start) while its keyword is still the current token, so their
\* slots are the stream positions just before the recorded keyword; the only
\* other marker, the skip-else marker of if, is reserved while else is still
\* the current token and its slot is the position just before the recorded
\* else.
C18_ReserveBeforeKeyword ==
  /\ \A a \in Activations :
       acts[a].fn \in MarkerHandlers =>
         LET lo == acts[a].lo
             n == UpFront(acts[a].fn)
         IN
           /\ input[acts[a].ilo] = Keyword(acts[a].fn)
           /\ Owned(a) \cap (1 .. lo + n) = (lo + 1 .. lo + n) \cap (1 .. Len(icode))
           /\ Len(input) > acts[a].ilo =>
                /\ Len(icode) > lo + n
                /\ icode[lo + n + 1] = Keyword(acts[a].fn)
           /\ \A m \in Owned(a) :
                m > lo + n =>
                  /\ acts[a].fn = "parse_IF"
                  /\ input[acts[a].ilo] # "tc_ELSE"
                  /\ IF Len(icode) > m THEN icode[m + 1] = "tc_ELSE"
                     ELSE token = "tc_ELSE"
  /\ \A i \in DOMAIN stack :
       /\ (\E u \in UpFrontLines : stack[i].fn = u[1] /\ stack[i].pc = u[2]) =>
            /\ i = Len(stack)
            /\ Len(input) = acts[stack[i].id].ilo
       /\ (stack[i].fn = "parse_FOR" /\ \A u \in UpFrontLines : stack[i].pc # u[2]) =>
            /\ stack[i].loc[break_point] = acts[stack[i].id].lo + 1
            /\ stack[i].loc[statementMarker] = acts[stack[i].id].lo + 2
            /\ stack[i].loc[condition_marker] = acts[stack[i].id].lo + 3
            /\ stack[i].loc[increment_marker] = acts[stack[i].id].lo + 4

\* a for statement was parsed, its four slots just before its keyword
C18_Witness ==
  \E a \in Activations :
    /\ acts[a].fn = "parse_FOR" /\ Done(a)
    /\ SubSeq(icode, acts[a].lo + 1, acts[a].lo + 5)
         = <<mc_location_marker, mc_location_marker, mc_location_marker,
             mc_location_marker, "tc_FOR">>
    /\ Owned(a) = acts[a].lo + 1 .. acts[a].lo + 4

\* a marker has been fixed up, and the position written into it
Fixed(m) == markers[m].val # <<>>

Target(m) == markers[m].val[1]

\* the slots of the four markers of a for statement
ExitSlot(a) == acts[a].lo + break_point

BodySlot(a) == acts[a].lo + statementMarker

CondSlot(a) == acts[a].lo + condition_marker

IncrSlot(a) == acts[a].lo + increment_marker

\* C19: for-loop fixup order.  parse_FOR fixes up condition start, increment
\* start, body start and exit in that order: condition start after the init
\* clause and its separator, at the start of the condition's code; increment
\* start after the condition clause and its separator, at the start of the
\* increment's code; body start after the closing `)` was required, at the
\* start of the body's code; exit after the body, at the end of the loop's
\* code.  So condition start <= increment start <= body start <= exit, and
\* all four lie beyond the four slots.
C19_ForFixupOrder ==
  \A a \in Activations :
    (acts[a].fn = "parse_FOR" /\ Len(icode) >= IncrSlot(a)) =>
      /\ Fixed(ExitSlot(a)) => Fixed(BodySlot(a))
      /\ Done(a) => Fixed(ExitSlot(a))
      /\ Fixed(BodySlot(a)) => Fixed(IncrSlot(a))
      /\ Fixed(IncrSlot(a)) => Fixed(CondSlot(a))
      /\ Fixed(CondSlot(a)) =>
           /\ Target(CondSlot(a)) > IncrSlot(a) + 1
           /\ \A c \in Children(a, "L198") :
                Done(c) /\ acts[c].hi < Target(CondSlot(a))
           /\ \A c \in Children(a, "L205") :
                acts[c].lo + 1 = Target(CondSlot(a))
      /\ Fixed(IncrSlot(a)) =>
           /\ Target(CondSlot(a)) <= Target(IncrSlot(a))
           /\ \A c \in Children(a, "L205") :
                Done(c) /\ acts[c].hi < Target(IncrSlot(a))
           /\ \A c \in Children(a, "L213") :
                acts[c].lo + 1 = Target(IncrSlot(a))
      /\ Fixed(BodySlot(a)) =>
           /\ Target(IncrSlot(a)) <= Target(BodySlot(a))
           /\ \A c \in Children(a, "L213") :
                Done(c) /\ acts[c].hi < Target(BodySlot(a))
           /\ \A c \in Children(a, "L220") :
                acts[c].lo + 1 = Target(BodySlot(a))
      /\ Fixed(ExitSlot(a)) =>
           /\ Target(BodySlot(a)) <= Target(ExitSlot(a))
           /\ \A c \in Children(a, "L220") :
                Done(c) /\ acts[c].hi + 1 = Target(ExitSlot(a))
           /\ Done(a) => Target(ExitSlot(a)) = acts[a].hi + 1

\* for (a; a; a) a was parsed, its four targets one after the other
C19_Witness ==
  \E a \in Activations :
    /\ acts[a].fn = "parse_FOR" /\ Done(a)
    /\ Children(a, "L198") # {} /\ Children(a, "L205") # {}
    /\ Children(a, "L213") # {}
    /\ IncrSlot(a) < Target(CondSlot(a))
    /\ Target(CondSlot(a)) < Target(IncrSlot(a))
    /\ Target(IncrSlot(a)) < Target(BodySlot(a))
    /\ Target(BodySlot(a)) < Target(ExitSlot(a))

\* the statement list and the condition of a do statement
DoList(d) == CHOOSE l \in Children(d, "L102") : TRUE

DoCond(d) == CHOOSE e \in Children(d, "L107") : TRUE

\* the place of each report of parse_DO in the order of its steps
DoRank(code) ==
  CASE code = "err_missing_WHILE" -> 1
    [] code = "err_missing_left_paren" -> 2
    [] code = err_incompatible_types -> 3
    [] code = "err_missing_right_paren" -> 4
    [] OTHER -> 0

\* the reports of an activation, in the order they were made
OwnCodes(a) ==
  LET own == SelectSeq(errors, LAMBDA e : e[2] = a)
  IN [i \in DOMAIN own |-> own[i][1]]

\* C20: do-while protocol.  parse_DO reserves its marker, consumes do, parses
\* a statement list terminated by while, requires while, requires `(`, parses
\* the condition and checks it, requires `)` and then fixes up the marker, in
\* this order; the marker stays unfixed until the step that requires `)` is
\* over, and its target is the position just after the loop's emitted code.
C20_DoWhileProtocol ==
  \A d \in Activations :
    acts[d].fn = "parse_DO" =>
      LET slot == acts[d].lo + 1 IN
        /\ Len(icode) >= slot =>
             /\ Owned(d) = {slot}
             /\ Fixed(slot) =>
                  /\ Children(d, "L102") # {} /\ Done(DoList(d))
                  /\ Children(d, "L107") # {} /\ Done(DoCond(d))
                  /\ \A i \in DOMAIN stack :
                       stack[i].id = d => stack[i].pc = "L112"
                  /\ Target(slot) > acts[DoCond(d)].hi
        /\ \A i \in DOMAIN stack :
             (stack[i].id = d /\ stack[i].pc = "L112") => Fixed(slot)
        /\ Done(d) =>
             LET l == DoList(d)
                 e == DoCond(d)
             IN
               /\ Cardinality(Children(d, "L102")) = 1
               /\ Cardinality(Children(d, "L107")) = 1
               /\ Calls(d) = {l, e}
               /\ acts[l].term = "tc_WHILE"
               /\ SubSeq(icode, slot, acts[l].lo) = <<mc_location_marker, "tc_DO">>
               /\ SubSeq(icode, acts[l].hi + 1, acts[e].lo)
                    \in {<<>>, <<"tc_WHILE">>, <<"tc_left_paren">>,
                         <<"tc_WHILE", "tc_left_paren">>}
               /\ SubSeq(icode, acts[e].hi + 1, acts[d].hi)
                    \in {<<>>, <<"tc_right_paren">>}
               /\ \A i, j \in DOMAIN OwnCodes(d) :
                    i < j => 0 < DoRank(OwnCodes(d)[i])
                             /\ DoRank(OwnCodes(d)[i]) < DoRank(OwnCodes(d)[j])
               /\ \A i \in DOMAIN OwnCodes(d) : DoRank(OwnCodes(d)[i]) > 0
               /\ Fixed(slot) /\ Target(slot) = acts[d].hi + 1

\* do a; while (a) was parsed: the target of its marker is the position just
\* after the recorded `)`
C20_Witness ==
  \E d \in Activations :
    /\ acts[d].fn = "parse_DO" /\ Done(d)
    /\ Consumed(d) = ProgDo
    /\ icode[acts[d].hi] = "tc_right_paren"
    /\ Target(acts[d].lo + 1) = acts[d].hi + 1

\* the body of a while statement
WhileBody(w) == CHOOSE b \in Children(w, "L132") : TRUE

\* C21: while body is a single statement.  parse_WHILE calls the dispatcher
\* once for the body and fixes up its marker right after that statement
\* returns, to the position just after the body's code; a statement that
\* follows the while statement in a list has all its code at or after that
\* position.
C21_WhileSingleBody ==
  \A w \in Activations :
    acts[w].fn = "parse_WHILE" =>
      LET slot == acts[w].lo + 1 IN
        /\ Cardinality(Children(w, "L132")) <= 1
        /\ (Len(icode) >= slot /\ Fixed(slot)) =>
             /\ Children(w, "L132") # {}
             /\ acts[WhileBody(w)].fn = "parse_statement"
             /\ Done(WhileBody(w))
             /\ Target(slot) = acts[WhileBody(w)].hi + 1
        /\ Done(w) =>
             /\ Fixed(slot) /\ Target(slot) = acts[w].hi + 1
             /\ Calls(w) = Children(w, "L128") \cup {WhileBody(w)}
             /\ \A s \in Activations :
                  (s > w /\ acts[s].parent < w) => Target(slot) <= acts[s].lo + 1

\* { while (a) a; a } was parsed: the marker of the while statement points at
\* the separator, before the line marker of the statement that follows
C21_Witness ==
  \E w, s \in Activations :
    /\ acts[w].fn = "parse_WHILE" /\ Done(w)
    /\ acts[s].fn = "parse_statement" /\ Done(s)
    /\ s > w /\ acts[s].parent < w
    /\ Len(Consumed(WhileBody(w))) = 1
    /\ icode[Target(acts[w].lo + 1)] = "tc_semicolon"
    /\ Target(acts[w].lo + 1) = acts[s].lo
    /\ Len(Consumed(s)) = 1

\* C22: if without else.  A parse_IF that has returned without an else branch
\* found a token other than else after the then statement and its stray
\* separators, reserved one marker in all, and that marker's target is the
\* position after the then branch's code and the recorded separators, the
\* position at which parse_IF returned.
C22_IfWithoutElse ==
  \A a \in Activations :
    (acts[a].fn = "parse_IF" /\ Done(a)) =>
      /\ HasElse(a) = (Cardinality(Owned(a)) = 2)
      /\ ~HasElse(a) =>
           /\ input[acts[a].ihi] \notin {"tc_ELSE", "tc_semicolon"}
           /\ Owned(a) = {FalseMarker(a)}
           /\ Fixed(FalseMarker(a))
           /\ Target(FalseMarker(a)) = acts[a].hi + 1
           /\ Children(a, "L162") # {}
           /\ OnlySeparators(acts[ThenStatement(a)].hi + 1, acts[a].hi)
           /\ acts[a].hi - acts[ThenStatement(a)].hi
                = acts[a].ihi - acts[ThenStatement(a)].ihi

\* if (a) a; was parsed at the end of the input: one marker, whose target is
\* the position after the recorded separator
C22_Witness ==
  \E a \in Activations :
    /\ acts[a].fn = "parse_IF" /\ Done(a) /\ ~HasElse(a)
    /\ Owned(a) = {FalseMarker(a)}
    /\ acts[a].hi = acts[ThenStatement(a)].hi + 1
    /\ icode[acts[a].hi] = "tc_semicolon"
    /\ Target(FalseMarker(a)) = acts[a].hi + 1

\* the slots whose marker record differs between the two states of a step
Rewritten == {m \in DOMAIN markers : markers'[m] # markers[m]}

\* a step keeps what the stream holds and where, reserves a slot only at the
\* end of the stream, and fixes up at most one marker, which changes the value
\* of that marker's slot and neither the stream nor the cursor
C23_Step ==
  /\ Len(icode') >= Len(icode)
  /\ SubSeq(icode', 1, Len(icode)) = icode
  /\ DOMAIN markers \subseteq DOMAIN markers'
  /\ DOMAIN markers' # DOMAIN markers =>
       /\ DOMAIN markers' = DOMAIN markers \cup {Len(icode) + 1}
       /\ icode' = Append(icode, mc_location_marker)
       /\ Rewritten = {}
  /\ Rewritten # {} =>
       /\ Cardinality(Rewritten) = 1
       /\ \A m \in Rewritten :
            /\ markers'[m].owner = markers[m].owner
            /\ markers'[m].val = Append(markers[m].val, Len(icode) + 1)
       /\ UNCHANGED <<icode, input, errors>>

\* the slots of the markers are the places of the placeholders in the stream
C23_Slots ==
  DOMAIN markers = {k \in DOMAIN icode : icode[k] = mc_location_marker}

\* C23: append-only stream and fixup frame.  The stream never gets shorter and
\* no unit or placeholder in it ever changes place; a fixup changes only the
\* value of its own marker's slot and leaves the length of the stream, every
\* other slot and the cursor as they were.
C23_AppendOnly == [][C23_Step]_vars /\ []C23_Slots

\* a marker was fixed up and the stream has grown since, the placeholder still
\* in its slot
C23_Witness ==
  \E m \in DOMAIN markers :
    /\ Fixed(m) /\ icode[m] = mc_location_marker
    /\ Len(icode) > Target(m)
    /\ \E k \in DOMAIN markers : k > m /\ ~Fixed(k)

\* s can be had from t by leaving elements out
RECURSIVE IsSubsequence(_, _)
IsSubsequence(s, t) ==
  IF s = <<>> THEN TRUE
  ELSE IF t = <<>> THEN FALSE
  ELSE IF Head(s) = Head(t) THEN IsSubsequence(Tail(s), Tail(t))
  ELSE IsSubsequence(s, Tail(t))

\* the tokens recorded in the stream, and the tokens the cursor has passed
RecordedTokens == SelectSeq(icode, IsToken)

PassedTokens == SubSeq(input, 1, Len(input) - 1)

\* a step that adds a token to the stream adds the current token and moves
\* the cursor past it
C24_Step ==
  (Len(icode') > Len(icode) /\ IsToken(icode'[Len(icode')])) =>
    /\ icode' = Append(icode, token)
    /\ input' # input
    /\ SubSeq(input', 1, Len(input)) = input
    /\ Len(input') = Len(input) + 1

\* C24: emission order equals traversal order.  Leaving placeholders and line
\* markers aside, the tokens in the stream are tokens the cursor has passed,
\* in the order in which it passed them, for every statement form.
C24_EmissionOrder ==
  [][C24_Step]_vars /\ [](IsSubsequence(RecordedTokens, PassedTokens))

\* for (a; a; a) a was parsed to the end of the input: the recorded tokens are
\* the tokens of the statement in their order
C24_Witness ==
  /\ ~Running
  /\ PassedTokens = ProgFor
  /\ RecordedTokens = ProgFor

\* a step that fixes a marker up writes the position that is then the next
\* free one of the stream
C25_Step ==
  \A m \in DOMAIN markers :
    markers'[m].val # markers[m].val =>
      /\ markers'[m].val = Append(markers[m].val, Len(icode) + 1)
      /\ icode' = icode

\* every value written into a marker lies beyond the marker's own slot and
\* beyond a keyword recorded after the slot, and not beyond the end of the
\* stream by more than one
C25_Forward ==
  \A m \in DOMAIN markers :
    \A i \in DOMAIN markers[m].val :
      /\ markers[m].val[i] > m
      /\ markers[m].val[i] <= Len(icode) + 1
      /\ \E k \in m + 1 .. markers[m].val[i] - 1 : icode[k] \in Keywords

\* C25: forward references only.  A fixup stores the stream position current
\* at the moment of the fixup, and as every handler records at least its
\* keyword between reserving a marker and fixing it up, the value of every
\* marker is strictly greater than the index of the marker's own slot.
C25_ForwardOnly == [][C25_Step]_vars /\ []C25_Forward

\* a do statement and nothing else was parsed: its marker, in slot 2, holds a
\* position beyond the recorded do
C25_Witness ==
  \E d \in Activations :
    /\ acts[d].fn = "parse_DO" /\ Done(d)
    /\ DOMAIN markers = {acts[d].lo + 1}
    /\ icode[acts[d].lo + 2] = "tc_DO"
    /\ Fixed(acts[d].lo + 1)
    /\ Target(acts[d].lo + 1) > acts[d].lo + 2

\* a compound block that has returned, its statement list stopped by the
\* closing delimiter
ClosedBlock(c) ==
  /\ acts[c].fn = "parse_compound" /\ Done(c)
  /\ input[acts[BlockList(c)].ihi] = "tc_right_bracket"

\* C26: iterator block leaves the closing delimiter.  When the statement list
\* of a compound block stops on the closing delimiter, parse_compound in a
\* standard-iterator routine returns with the delimiter still the current
\* token, neither consumed nor recorded, and in any other routine returns with
\* the delimiter consumed and recorded; no report is made either way.
C26_IteratorLeavesDelimiter ==
  \A c \in Activations :
    ClosedBlock(c) =>
      LET l == BlockList(c) IN
        /\ OwnReports(c) = 0
        /\ IF routine.which = "func_std_iterator"
             THEN /\ acts[c].ihi = acts[l].ihi
                  /\ acts[c].hi = acts[l].hi
                  /\ input[acts[c].ihi] = "tc_right_bracket"
             ELSE /\ acts[c].ihi = acts[l].ihi + 1
                  /\ acts[c].hi = acts[l].hi + 1
                  /\ icode[acts[c].hi] = "tc_right_bracket"

\* { a } was parsed in a standard-iterator routine: the block has returned
\* and the closing delimiter is still the current token
C26_Witness ==
  \E c \in Activations :
    /\ ClosedBlock(c) /\ routine.which = "func_std_iterator"
    /\ Consumed(c) = <<"tc_left_bracket", "tc_identifier">>
    /\ token = "tc_right_bracket"

\* the tests of parse_FOR for its three clauses: line of the test, token that
\* stands for an empty clause, callee for a clause that is there
ForClauses ==
  {<<"L198", "tc_semicolon", "parse_declarations_or_assignment">>,
   <<"L205", "tc_semicolon", "parse_expression">>,
   <<"L213", "tc_right_paren", "parse_expression">>}

\* at each test a clause is parsed if and only if the current token is not
\* the one that stands for an empty clause; an empty init or condition clause
\* is passed by consuming its separator, an empty increment by nothing
C27_Step ==
  \A q \in ForClauses :
    At("parse_FOR", q[1]) =>
      IF token # q[2]
        THEN /\ Len(stack') = Len(stack) + 1
             /\ stack'[Len(stack')].fn = q[3]
             /\ UNCHANGED <<input, icode, errors, markers>>
        ELSE /\ Len(stack') = Len(stack)
             /\ acts' = acts
             /\ errors' = errors
             /\ IF q[1] = "L213" THEN UNCHANGED <<input, icode>>
                ELSE /\ Len(input') = Len(input) + 1
                     /\ icode' = Append(icode, "tc_semicolon")

\* a for statement that begins for ( ; ; )
EmptyFor(a) ==
  /\ acts[a].fn = "parse_FOR"
  /\ Len(input) >= acts[a].ilo + 4
  /\ SubSeq(input, acts[a].ilo, acts[a].ilo + 4)
       = <<"tc_FOR", "tc_left_paren", "tc_semicolon", "tc_semicolon",
           "tc_right_paren">>

\* each clause is parsed once at most, a parsed condition is checked by the
\* handler that parsed it, and a parse_FOR that has returned from
\* for ( ; ; ) S parsed no clause, made no report and fixed its four markers
C27_Completed ==
  \A a \in Activations :
    acts[a].fn = "parse_FOR" =>
      /\ \A q \in ForClauses :
           /\ Cardinality(Children(a, q[1])) <= 1
           /\ \A c \in Children(a, q[1]) :
                acts[c].fn = q[3] /\ input[acts[c].ilo] # q[2]
      /\ (EmptyFor(a) /\ Done(a)) =>
           /\ \A q \in ForClauses : Children(a, q[1]) = {}
           /\ Calls(a) = Children(a, "L220")
           /\ OwnReports(a) = 0
           /\ Owned(a) = acts[a].lo + 1 .. acts[a].lo + 4
           /\ FixedBy(a) = Owned(a)
           /\ \A m \in Owned(a) : Len(markers[m].val) = 1

\* C27: for-loop optional clauses.  parse_FOR parses the init clause iff the
\* token after `(` is not the separator, parses and checks the condition iff
\* the token after the first separator is not the separator, and parses the
\* increment iff the token after the second separator is not `)`; for
\* for ( ; ; ) S no clause is parsed, nothing is reported and all four markers
\* are fixed up.
C27_ForOptionalClauses == [][C27_Step]_vars /\ []C27_Completed

\* for ( ; ; ) { a } was parsed to the end without a report, four markers fixed
C27_Witness ==
  \E a \in Activations :
    /\ EmptyFor(a) /\ Done(a)
    /\ Consumed(a) = ProgForEmpty
    /\ errors = <<>>
    /\ \A m \in acts[a].lo + 1 .. acts[a].lo + 4 : Fixed(m)

\* the reports that only the case-label validator makes
CaseLabelErrors ==
  {"err_undefined_identifier", "err_invalid_constant", "err_missing_colon"}

\* C30: case and default are not dispatched.  A parse_statement that starts on
\* case or default calls no handler and records nothing but its line marker;
\* its recovery starts on that token and discards it; and in statement parsing
\* parse_case_label and parse_case_branch are never called and no case-label
\* error is reported.
C30_CaseNotDispatched ==
  /\ \A a \in Activations :
       acts[a].fn \notin {"parse_case_label", "parse_case_branch"}
  /\ \A i \in DOMAIN errors : errors[i][1] \notin CaseLabelErrors
  /\ \A s \in Activations :
       (acts[s].fn = "parse_statement" /\ Lead(s) \in {"tc_CASE", "tc_DEFAULT"}) =>
         /\ HandlerCalls(s) = {}
         /\ \A r \in ResyncCalls(s) :
              /\ acts[r].ilo = acts[s].ilo /\ acts[r].lo = acts[s].lo + 1
              /\ Done(r) => acts[r].ihi > acts[r].ilo
         /\ Done(s) =>
              /\ ResyncCalls(s) # {}
              /\ Emitted(s) = <<mc_line_marker>>
              /\ OwnReports(s) = 0

\* default ; was given to a parse_statement, which called no handler and
\* stopped on the separator
C30_Witness ==
  \E s \in Activations :
    /\ acts[s].fn = "parse_statement" /\ Done(s)
    /\ Lead(s) = "tc_DEFAULT"
    /\ HandlerCalls(s) = {}
    /\ input[acts[s].ihi] = "tc_semicolon"
    /\ acts[s].ihi = acts[s].ilo + 1

(* ------------------------------------------------------------------ *)
(* Case labels                                                          *)
(* ------------------------------------------------------------------ *)

\* the label carries a sign
Signed == Len(input) >= 2 /\ input[2] \in tokenlist_unary_ops

\* where the label's value stands in the input
LabelAt == IF Signed THEN 3 ELSE 2

\* the label's value has been scanned
Labelled == Len(input) >= LabelAt

LabelToken == input[LabelAt]

\* a declared identifier, an integer literal, or an unsigned character literal
ValidLabel ==
  /\ Labelled
  /\ \/ LabelToken = "tc_identifier" /\ search_all
     \/ LabelToken = "tc_number" /\ token_is_integer
     \/ LabelToken = "tc_string" /\ ~Signed /\ token_strlen = 3

\* the validator has made its switch on the label's value and its check
Classified ==
  Done(1) \/ (Running /\ stack[1].pc \in {"L279", "L283", "L295", "L297", "L298"})

\* the validator has required its colon
Required == Done(1) \/ (Running /\ stack[1].pc \in {"L297", "L298"})

\* C28: a valid case label followed by a colon is accepted: once the validator
\* has required its colon it has reported nothing and the colon stands in the
\* stream after the label's value.
C28_Original ==
  (/\ ValidLabel
   /\ Len(input) > LabelAt /\ input[LabelAt + 1] = "tc_colon"
   /\ Required) =>
    /\ OwnReports(1) = 0
    /\ Len(icode) > LabelAt /\ icode[LabelAt + 1] = "tc_colon"

\* the label's value is misclassified
UndefinedLabel == LabelToken = "tc_identifier" /\ ~search_all

InvalidLabel ==
  \/ LabelToken = "tc_number" /\ ~token_is_integer
  \/ LabelToken = "tc_string" /\ (Signed \/ token_strlen # 3)

\* where the validator requires its colon: after an identifier or a number,
\* which the switch consumes, and on any other token itself
ColonAt ==
  IF LabelToken \in {"tc_identifier", "tc_number"} THEN LabelAt + 1 ELSE LabelAt

\* the switch on the label's value reports what it finds and goes on
C29_Step ==
  (Running /\ Top.fn = "parse_case_label" /\ Top.pc \in {"L275", "L282", "L286"}) =>
    /\ errors' =
         IF Top.pc = "L275" /\ UndefinedLabel
           THEN Append(errors, <<"err_undefined_identifier", 1>>)
         ELSE IF Top.pc \in {"L282", "L286"} /\ InvalidLabel
           THEN Append(errors, <<"err_invalid_constant", 1>>)
         ELSE errors
    /\ stack' # <<>> /\ Len(stack') = 1
    /\ stack'[1].pc \in {"L279", "L283", "L295"}

C29_Classified ==
  /\ Classified =>
       /\ OwnErrors(1, "err_undefined_identifier") = (IF UndefinedLabel THEN 1 ELSE 0)
       /\ OwnErrors(1, "err_invalid_constant") = (IF InvalidLabel THEN 1 ELSE 0)
  /\ ~Classified =>
       \A i \in DOMAIN errors : errors[i][2] # 1
  /\ Required =>
       /\ Len(input) >= ColonAt
       /\ OwnErrors(1, "err_missing_colon") =
            (IF input[ColonAt] = "tc_colon" THEN 0 ELSE 1)
       /\ input[ColonAt] = "tc_colon" =>
            Len(icode) >= ColonAt /\ icode[ColonAt] = "tc_colon"
  /\ Done(1) => Children(1, "L297") # {}

\* C29: parse_case_label reports undefined-identifier exactly when the label
\* is an identifier that the lookup does not find, and invalid-constant exactly
\* when it is a number that is not an integer or a string that is signed or is
\* not of length 3; after either report it goes on to require the colon and to
\* parse the branch's statements.
C29_ErrorClassification == [][C29_Step]_vars /\ []C29_Classified

\* a signed string label was reported as an invalid constant, the colon was
\* then found missing and the validator finished
C29_Witness ==
  /\ Done(1) /\ Signed /\ Labelled /\ LabelToken = "tc_string"
  /\ OwnErrors(1, "err_invalid_constant") = 1
  /\ OwnErrors(1, "err_missing_colon") = 1
  /\ Children(1, "L297") # {}

(* ------------------------------------------------------------------ *)
(* Break                                                                *)
(* ------------------------------------------------------------------ *)

\* the activation directly around a statement, 0 where there is none
Construct(s) == acts[s].parent

\* a statement that starts on break
BreakStatement(s) ==
  acts[s].fn = "parse_statement" /\ Lead(s) = "tc_BREAK"

\* the dispatcher's step on break records the token, passes it and does nothing
\* else
C31_Step ==
  (Running /\ Top.fn = "parse_statement" /\ Top.pc = "L12" /\ token = "tc_BREAK") =>
    /\ icode' = Append(icode, "tc_BREAK")
    /\ Len(input') = Len(input) + 1
    /\ markers' = markers /\ errors' = errors /\ acts' = acts
    /\ Len(stack') = Len(stack)

C31_Break ==
  \A s \in Activations :
    BreakStatement(s) =>
      /\ HandlerCalls(s) = {}
      /\ Owned(s) = {} /\ FixedBy(s) = {}
      /\ OwnReports(s) = 0
      /\ \A r \in ResyncCalls(s) :
           acts[r].ilo = acts[s].ilo + 1 /\ acts[r].lo = acts[s].lo + 2
      /\ Done(s) => SubSeq(Emitted(s), 1, 2) = <<mc_line_marker, "tc_BREAK">>
      /\ \A m \in DOMAIN markers :
           /\ markers[m].owner # s
           /\ (m > acts[s].lo /\ Done(s)) => m > acts[s].hi

\* C31: break is context-free.  A statement that starts on break, whatever
\* construct it stands in, consumes the break token and records it, calls no
\* handler, reports nothing and reserves and fixes no marker; the step changes
\* no marker, so the exit marker of an enclosing loop is left to the loop.
C31_BreakContextFree == [][C31_Step]_vars /\ []C31_Break

\* a break in a while body, a break in a switch body and a break in a plain
\* block were parsed, and the while fixed its own exit marker
C31_Witness ==
  \E s1, s2, s3 \in Activations :
    /\ BreakStatement(s1) /\ BreakStatement(s2) /\ BreakStatement(s3)
    /\ Done(s1) /\ Done(s2) /\ Done(s3)
    /\ Construct(s1) # 0 /\ acts[Construct(s1)].fn = "parse_WHILE"
    /\ Construct(s2) # 0 /\ acts[Construct(s2)].fn = "parse_SWITCH"
    /\ Construct(s3) # 0 /\ acts[Construct(s3)].fn = "parse_statement_list"
    /\ Done(Construct(s1))
    /\ markers[acts[Construct(s1)].lo + 1].fixedBy = <<Construct(s1)>>

(* ------------------------------------------------------------------ *)
(* The directive marker                                                 *)
(* ------------------------------------------------------------------ *)

\* the routines of the statement parser
StatementRoutines ==
  {"parse_statement", "parse_statement_list", "parse_DO", "parse_WHILE",
   "parse_IF", "parse_FOR", "parse_SWITCH", "parse_compound", "parse_RETURN"}

\* the tokens the dispatcher and the handlers consume themselves
DirectTokens == (Keywords \ {"tc_CASE", "tc_DEFAULT"}) \cup Punctuation

\* a step of the statement parser that passes a token records it, unless the
\* token is the directive marker
C32_Step ==
  (/\ Running /\ Top.fn \in StatementRoutines
   /\ Len(input') > Len(input)) =>
    /\ token \in DirectTokens
    /\ IF token = "tc_pound"
         THEN icode' = icode /\ Top.fn = "parse_statement"
         ELSE icode' = Append(icode, token)

C32_NoPound ==
  /\ \A i \in DOMAIN icode : icode[i] # "tc_pound"
  /\ \A s \in Activations :
       (acts[s].fn = "parse_statement" /\ Lead(s) = "tc_pound") =>
         \A c \in HandlerCalls(s) :
           /\ acts[c].fn = "parse_execute_directive"
           /\ acts[c].ilo = acts[s].ilo + 1
           /\ acts[c].lo = acts[s].lo + 1

\* C32: the directive marker is not recorded.  The dispatcher passes a leading
\* # without appending it, so # never stands in the stream and the directive
\* parser starts one token on with only the line marker recorded; every other
\* token that the dispatcher or a handler passes itself is appended as it is
\* passed.
C32_DirectiveNotRecorded == [][C32_Step]_vars /\ []C32_NoPound

\* { # a ; const a ; break } was parsed: const and break stand in the stream,
\* the directive left nothing but its line marker
C32_Witness ==
  /\ ~Running
  /\ \E s \in Activations :
       /\ acts[s].fn = "parse_statement" /\ Lead(s) = "tc_pound" /\ Done(s)
       /\ Emitted(s) = <<mc_line_marker>>
       /\ acts[s].ihi > acts[s].ilo + 1
  /\ \E i, j \in DOMAIN icode :
       icode[i] = "tc_CONST" /\ icode[j] = "tc_BREAK"

(* ------------------------------------------------------------------ *)
(* Dangling else                                                        *)
(* ------------------------------------------------------------------ *)

\* the ifs that are the then-branch of the if o
InnerIfs(o) ==
  {i \in Activations :
     /\ acts[i].fn = "parse_IF"
     /\ \E t \in Children(o, "L162") : acts[i].parent = t}

\* where the else that o consumed stands in the input
ElsePos(o) == acts[ElseStatement(o)].ilo - 1

\* C33: a dangling else binds to the innermost if.  An if never consumes an
\* else on which an if that is its then-branch returned without an else of its
\* own; and an outer if that consumed exactly if (a) if (a) a else a reserved
\* one marker while its inner if consumed the else and reserved two.
C33_DanglingElse ==
  \A o \in Activations :
    acts[o].fn = "parse_IF" =>
      \A i \in InnerIfs(o) :
        /\ (HasElse(o) /\ ~HasElse(i)) => acts[i].ihi # ElsePos(o)
        /\ (Done(o) /\ Consumed(o) = ProgDangling) =>
             /\ HasElse(i) /\ ~HasElse(o)
             /\ input[ElsePos(i)] = "tc_ELSE" /\ ElsePos(i) = acts[o].ilo + 9
             /\ Cardinality(Owned(i)) = 2
             /\ Cardinality(Owned(o)) = 1

\* if (a) if (a) a else a was parsed: the inner if took the else
C33_Witness ==
  \E o \in Activations :
    /\ acts[o].fn = "parse_IF" /\ Done(o) /\ Consumed(o) = ProgDangling
    /\ \E i \in InnerIfs(o) :
         HasElse(i) /\ Cardinality(Owned(i)) = 2 /\ Cardinality(Owned(o)) = 1

(* ------------------------------------------------------------------ *)
(* The first statement of a list                                        *)
(* ------------------------------------------------------------------ *)

\* the token a statement list is entered on
EntryToken(l) == input[acts[l].ilo]

\* the list's first dispatcher call
FirstDispatched(l) ==
  {s \in Dispatched(l) : acts[s].ilo = acts[l].ilo /\ acts[s].lo = acts[l].lo}

\* the dispatcher call selected no handler and consumed no token
Idle(s) ==
  /\ HandlerCalls(s) = {}
  /\ \A r \in ResyncCalls(s) : Done(r) => acts[r].ihi = acts[r].ilo
  /\ Done(s) => acts[s].ihi = acts[s].ilo

NestedHead == SubSeq(ProgNested, 1, 4)

\* the block c starts on the text t
StartsOn(c, t) ==
  /\ Len(input) >= acts[c].ilo + Len(t) - 1
  /\ SubSeq(input, acts[c].ilo, acts[c].ilo + Len(t) - 1) = t

\* the blocks that are statements of the block c
InnerBlocks(c) ==
  {b \in Activations :
     /\ acts[b].fn = "parse_compound"
     /\ \E s \in Dispatched(BlockList(c)) : acts[b].parent = s}

\* C35: nested blocks in an iterator routine.  In a standard-iterator routine
\* the inner block of { { a } b } returns on its closing delimiter, the outer
\* list stops on it after that one statement and the outer block returns with
\* it still the current token, so b is not dispatched; in any other routine b
\* is dispatched by the outer list and both delimiters are consumed and
\* recorded.
C35_NestedBlocks ==
  \A c \in Activations :
    (acts[c].fn = "parse_compound" /\ Done(c)) =>
      /\ (routine.which = "func_std_iterator" /\ StartsOn(c, NestedHead)) =>
           /\ Cardinality(Dispatched(BlockList(c))) = 1
           /\ \A b \in InnerBlocks(c) :
                acts[b].ihi = acts[c].ilo + 3 /\ acts[BlockList(c)].ihi = acts[b].ihi
           /\ InnerBlocks(c) # {}
           /\ acts[c].ihi = acts[c].ilo + 3
           /\ Consumed(c) = SubSeq(NestedHead, 1, 3)
           /\ \A i \in (acts[c].lo + 1)..acts[c].hi : icode[i] # "tc_right_bracket"
      /\ (routine.which # "func_std_iterator" /\ StartsOn(c, ProgNested)) =>
           /\ Consumed(c) = ProgNested
           /\ \E s \in Dispatched(BlockList(c)) :
                acts[s].ilo = acts[c].ilo + 4 /\ HandlerCalls(s) # {}
           /\ Cardinality({i \in (acts[c].lo + 1)..acts[c].hi :
                             icode[i] = "tc_right_bracket"}) = 2
           /\ OwnReports(c) = 0

\* { { a } was parsed in a standard-iterator routine: the outer block returned
\* on the inner block's closing delimiter after one statement
C35_Witness ==
  \E c \in Activations :
    /\ acts[c].fn = "parse_compound" /\ Done(c)
    /\ routine.which = "func_std_iterator" /\ StartsOn(c, NestedHead)
    /\ InnerBlocks(c) # {}
    /\ acts[c].ihi = acts[c].ilo + 3
    /\ token = "tc_right_bracket"

(* ------------------------------------------------------------------ *)
(* The visualizer's connection and its identifiers                      *)
(* ------------------------------------------------------------------ *)

\* the visualizer holds no network data
Cleared ==
  /\ ActivePathways = <<>>
  /\ ActiveStreams = <<>>
  /\ CurrentMetrics = FConsciousnessMetrics

\* a disconnect, called directly or on the end of play
C36_Disconnect ==
  (request'.op \in {"DisconnectFromConsciousnessNetwork", "EndPlay"}) =>
    IF bIsConnectedToNetwork
      THEN /\ bIsConnectedToNetwork' = FALSE
           /\ ActivePathways' = <<>> /\ ActiveStreams' = <<>>
           /\ CurrentMetrics' = FConsciousnessMetrics
      ELSE UNCHANGED <<bIsConnectedToNetwork, ActivePathways, ActiveStreams,
                       CurrentMetrics, NeuralPathwaySplines>>

C36_Connect ==
  (request'.op = "ConnectToConsciousnessNetwork") =>
    /\ bIsConnectedToNetwork' = TRUE
    /\ IF bIsConnectedToNetwork
         THEN /\ ActivePathways' = <<>> /\ ActiveStreams' = <<>>
              /\ CurrentMetrics' = FConsciousnessMetrics
         ELSE UNCHANGED <<ActivePathways, ActiveStreams, CurrentMetrics>>

\* C36: visualizer connect and disconnect.  A disconnect while connected sets
\* the connected flag false, empties ActivePathways and ActiveStreams and
\* resets CurrentMetrics to its defaults; a disconnect while not connected
\* changes nothing; a connect while connected first clears all data as a
\* disconnect does, and every connect ends with the connected flag true.
C36_ConnectDisconnect == [][C36_Disconnect /\ C36_Connect]_vars

\* pathways, streams and changed metrics were cleared by a disconnect
C36_Witness ==
  /\ request.op = "DisconnectFromConsciousnessNetwork"
  /\ ~bIsConnectedToNetwork /\ Cleared
  /\ NeuralPathwaySplines = MaxSplines

\* no two entries of the array have the same identifier
Unique(array, field) ==
  \A i, j \in DOMAIN array :
    i # j => array[i][field] # array[j][field] /\ ~SameString(array[i][field], array[j][field])

\* the array changed at the index k at most, and kept its length
InPlace(old, new, k) ==
  /\ Len(new) = Len(old)
  /\ \A i \in DOMAIN old : i # k => new[i] = old[i]

C37_Update ==
  /\ (request'.op \in {"UpdateNeuralPathway", "VisualizeSynapticPlasticity"}) =>
       IF request'.found # 0
         THEN /\ InPlace(ActivePathways, ActivePathways', request'.found)
              /\ ActivePathways'[request'.found].PathwayId =
                   ActivePathways[request'.found].PathwayId
         ELSE \/ ActivePathways' = ActivePathways
              \/ /\ request'.op = "UpdateNeuralPathway"
                 /\ Len(ActivePathways') = Len(ActivePathways) + 1
                 /\ InPlace(ActivePathways, SubSeq(ActivePathways', 1, Len(ActivePathways)), 0)
  /\ (request'.op = "UpdateConsciousnessStream") =>
       IF request'.found # 0
         THEN /\ InPlace(ActiveStreams, ActiveStreams', request'.found)
              /\ SameString(ActiveStreams'[request'.found].StreamId,
                            ActiveStreams[request'.found].StreamId)
         ELSE /\ Len(ActiveStreams') = Len(ActiveStreams) + 1
              /\ InPlace(ActiveStreams, SubSeq(ActiveStreams', 1, Len(ActiveStreams)), 0)

C37_Unique ==
  /\ Unique(ActivePathways, "PathwayId")
  /\ Unique(ActiveStreams, "StreamId")

\* C37: visualizer identifier uniqueness.  After any sequence of calls no two
\* entries of ActivePathways have the same PathwayId and no two entries of
\* ActiveStreams the same StreamId; an update whose identifier is there
\* changes that one entry in place and leaves the number of entries as it is,
\* and only an update whose identifier is not there adds an entry.
C37_IdentifierUniqueness == [][C37_Update]_vars /\ []C37_Unique

\* with two pathways and two streams there, an update found its pathway at
\* the second place under an identifier written in another case
C37_Witness ==
  /\ request = [op |-> "UpdateNeuralPathway", found |-> 2]
  /\ Len(ActivePathways) = 2 /\ Len(ActiveStreams) = 2
  /\ NeuralPathwaySplines = 2
  /\ ActivePathways[2].PathwayId = "P1"

(* ------------------------------------------------------------------ *)
(* The entity's change detection                                        *)
(* ------------------------------------------------------------------ *)

\* the events of a Tick that found a change
ChangeEvents == {"UpdateVisualization", "OnConsciousnessChanged"}

\* the fields whose stored previous value is not the current value
ChangedFields ==
  {field \in DOMAIN ConsciousnessData : Previous[field] # ConsciousnessData[field]}

\* the event of each field that has one
FieldEvent ==
  [Awareness |-> "OnAwarenessChanged", Emotion |-> "OnEmotionChanged",
   Energy |-> "OnEnergyChanged"]

Fired(f) == {f[i] : i \in DOMAIN f}

C38_Tick ==
  (called' = "Tick") =>
    /\ ("OnConsciousnessChanged" \in Fired(fired')) <=> (ChangedFields # {})
    /\ ("UpdateVisualization" \in Fired(fired')) <=> (ChangedFields # {})
    /\ \A field \in DOMAIN FieldEvent :
         (FieldEvent[field] \in Fired(fired')) <=> (field \in ChangedFields)
    /\ Fired(fired') \subseteq ChangeEvents \cup {FieldEvent[f] : f \in DOMAIN FieldEvent}
    /\ Previous' = ConsciousnessData'
    /\ called = "Tick" => fired' = <<>>

\* C38: entity change detection.  A Tick fires OnConsciousnessChanged and
\* refreshes the visualization exactly when one of the four fields is not its
\* stored previous value, fires the event of a field exactly when that field
\* is one of Awareness, Emotion, Energy and has changed, and leaves every
\* previous value the current value; a Tick that follows a Tick fires nothing.
C38_Original == [][C38_Tick]_vars

====
